---------------------------- MODULE Spec2Model ----------------------------
(***************************************************************************)
(* Model of the anomaly-detection engine of src/aih.py: the construction   *)
(* of the one-row-per-claim view in load_and_process_data, the cost        *)
(* roll-up calcular_custo_total_aih and the detectors analisar_*.          *)
(*                                                                         *)
(* A table (pandas DataFrame) is a sequence of records, one record per     *)
(* row, in row order.  Every cell is an integer: text values and ids are   *)
(* coded by positive integers whose order is the order of the strings      *)
(* they stand for, money is in integer units, a date is a day number.      *)
(* A missing cell (NaN, NaT, None) is NULL.                                *)
(***************************************************************************)
EXTENDS Integers, Sequences, FiniteSets, TLC

VARIABLES
    pc,     \* position in the run: "raw", "loaded", "ready", "done"
    df,     \* the claim-line view (df / df_processado)
    aih,    \* the one-row-per-claim view (df_aih_custos / df_aih_custos_unicos)
    forn,   \* the supplier registry (df_fornecedores)
    cols,   \* the column names the view handed to a detector carries
    out,    \* what the last operation returned
    chamadas,  \* the detector calls an alert run has made, with their results
    hashseed,  \* the string-hash seed of the interpreter process (PYTHONHASHSEED)
    session_state,  \* st.session_state: what the session keeps between script runs
    uploaded   \* the files in the two upload widgets

vars == <<pc, df, aih, forn, cols, out, chamadas, hashseed, session_state, uploaded>>

\* NaN / NaT: what a missing or unparsable cell is coerced to.
NULL == -1

\* SP_PF_DOC = "000000000000000", the "not applicable" payee.
SENTINEL_PF_DOC == 0

-----------------------------------------------------------------------------
(* Generic table helpers (the pandas primitives the code relies on).       *)

RECURSIVE SumSeq(_)
\* Series.sum(): the sum of the cells of a column, 0 for an empty column.
SumSeq(s) == IF s = <<>> THEN 0 ELSE Head(s) + SumSeq(Tail(s))

\* All sequences over S of length 0..n.
SeqsUpTo(S, n) == UNION {[1..k -> S] : k \in 0..n}

\* Lexicographic order on integer tuples of the same length.
LexLess(a, b) ==
    \E i \in DOMAIN a : a[i] < b[i] /\ \A j \in 1..(i - 1) : a[j] = b[j]

\* The sort key of a cell in an ascending sort: nulls go last (na_position).
NaLast(x) == IF x = NULL THEN <<1, 0>> ELSE <<0, x>>

\* The sort key of a cell in a descending sort: nulls still go last.
NaLastDesc(x) == IF x = NULL THEN <<1, 0>> ELSE <<0, 0 - x>>

\* A stable ascending sort of the rows of s by the tuple keys k (k[i] is the
\* key of s[i]); rows with equal keys keep their input order.
StableSortAsc(s, k) ==
    LET n == Len(s)
        rank(i) == Cardinality({j \in 1..n : LexLess(k[j], k[i]) \/ (k[j] = k[i] /\ j < i)}) + 1
    IN  [p \in 1..n |-> s[CHOOSE i \in 1..n : rank(i) = p]]

\* pd.DataFrame(): the empty result every detector returns for "no finding".
EmptyResult == [kind |-> "table", rows |-> <<>>]

Table(rows) == [kind |-> "table", rows |-> rows]

\* The call raised instead of returning (KeyError, TypeError).
Raised == [kind |-> "raised", rows |-> <<>>]

-----------------------------------------------------------------------------
(* load_and_process_data: the one-row-per-claim view.                      *)

\* GroupBy.first(): the first non-null cell of column c among rows g, NULL
\* when every cell is null.
FirstNonNull(g, c) ==
    LET idx == {i \in DOMAIN g : g[i][c] # NULL}
    IN  IF idx = {} THEN NULL
        ELSE g[CHOOSE i \in idx : \A j \in idx : i <= j][c]

\* df[df['SP_PF_DOC'] != SENTINEL].groupby('SP_NAIH').first().reset_index()
\* projected on the claim-level columns: groups are the non-null claim ids of
\* the remaining lines, in ascending key order.
BuildClaimView(lines) ==
    LET kept == SelectSeq(lines, LAMBDA r : r.SP_PF_DOC # SENTINEL_PF_DOC)
        keys == {kept[i].SP_NAIH : i \in DOMAIN kept} \ {NULL}
        grp(c) == SelectSeq(kept, LAMBDA r : r.SP_NAIH = c)
        row(c) == [SP_NAIH |-> c,
                   VAL_SH  |-> FirstNonNull(grp(c), "VAL_SH"),
                   NOME    |-> FirstNonNull(grp(c), "NOME"),
                   SP_DTINTER |-> FirstNonNull(grp(c), "SP_DTINTER")]
        n == Cardinality(keys)
        nth(p) == CHOOSE c \in keys : Cardinality({d \in keys : d < c}) = p - 1
    IN  [p \in 1..n |-> row(nth(p))]

\* Bound: number of raw claim lines of a load.
MaxRawLines == 3

RawLine == [SP_NAIH : {1, 2}, SP_PF_DOC : {SENTINEL_PF_DOC, 7},
            VAL_SH : {10, 20}, NOME : {NULL, 1, 2}, SP_DTINTER : {NULL, 5}]

Init ==
    /\ pc = "raw"
    /\ df \in SeqsUpTo(RawLine, MaxRawLines)
    /\ aih = <<>>
    /\ forn = <<>>
    /\ cols = {}
    /\ out = EmptyResult
    /\ uploaded = <<>>
    /\ session_state = <<>>
    /\ hashseed = 0
    /\ chamadas = <<>>

load_and_process_data ==
    /\ pc = "raw"
    /\ aih' = BuildClaimView(df)
    /\ pc' = "loaded"
    /\ UNCHANGED <<df, forn, cols, out, chamadas, hashseed, session_state, uploaded>>

Next == load_and_process_data

Spec == Init /\ [][Next]_vars

-----------------------------------------------------------------------------
(* Claims about the claim view.                                            *)

ClaimIdsOf(lines) == {lines[i].SP_NAIH : i \in DOMAIN lines} \ {NULL}

\* The first line, in input order, of claim c whose payee is not the sentinel.
FirstNonSentinelLine(lines, c) ==
    LET idx == {i \in DOMAIN lines : lines[i].SP_NAIH = c
                                     /\ lines[i].SP_PF_DOC # SENTINEL_PF_DOC}
    IN  lines[CHOOSE i \in idx : \A j \in idx : i <= j]

\* C1: after the load, the claim view holds exactly one row for every claim id
\* present in the input lines, also for a claim all of whose lines carry the
\* all-zero sentinel payee id.
C1_OneRowPerClaimId ==
    pc = "loaded" =>
        \A c \in ClaimIdsOf(df) :
            Cardinality({p \in DOMAIN aih : aih[p].SP_NAIH = c}) = 1

\* C2: every row of the claim view takes all its fields from one single line,
\* the first line in input order among the claim's non-sentinel lines, also
\* where that line is null in a field.
C2_RowIsFirstNonSentinelLine ==
    pc = "loaded" =>
        \A p \in DOMAIN aih :
            LET l == FirstNonSentinelLine(df, aih[p].SP_NAIH)
            IN  /\ aih[p].VAL_SH = l.VAL_SH
                /\ aih[p].NOME = l.NOME
                /\ aih[p].SP_DTINTER = l.SP_DTINTER

-----------------------------------------------------------------------------
(* calcular_custo_total_aih and its call from the physicians tab.          *)

\* The distinct non-null values of column c of rows t, ascending (the group
\* keys of a groupby on c).
GroupKeys(t, c) == {t[i][c] : i \in DOMAIN t} \ {NULL}

\* The members of the finite integer set S as an ascending sequence.
AscSeq(S) ==
    [p \in 1..Cardinality(S) |->
        CHOOSE x \in S : Cardinality({y \in S : y < x}) = p - 1]

\* df[df['IS_OPME']].groupby('SP_NAIH')['SP_VALATO'].sum().reset_index(name=...)
CustoOpmePorAih(lines) ==
    LET opme == SelectSeq(lines, LAMBDA r : r.IS_OPME)
        keys == AscSeq(GroupKeys(opme, "SP_NAIH"))
        soma(c) == SumSeq([i \in DOMAIN SelectSeq(opme, LAMBDA r : r.SP_NAIH = c) |->
                              SelectSeq(opme, LAMBDA r : r.SP_NAIH = c)[i].SP_VALATO])
    IN  [p \in DOMAIN keys |-> [SP_NAIH |-> keys[p], CUSTO_TOTAL_OPME_AIH |-> soma(keys[p])]]

RECURSIVE Concat(_)
\* The concatenation of a sequence of sequences.
Concat(ss) == IF ss = <<>> THEN <<>> ELSE Head(ss) \o Concat(Tail(ss))

\* The same merge with how='inner': a claim without device lines loses its row.
MergeCustoInner(left, right) ==
    LET matches(l) == SelectSeq(right, LAMBDA r : r.SP_NAIH = l.SP_NAIH)
        joined(l) == [i \in DOMAIN matches(l) |->
                         [SP_NAIH |-> l.SP_NAIH, VAL_SH |-> l.VAL_SH, VAL_SP |-> l.VAL_SP,
                          CUSTO_TOTAL_OPME_AIH |-> matches(l)[i].CUSTO_TOTAL_OPME_AIH]]
    IN  Concat([p \in DOMAIN left |-> joined(left[p])])

\* left.merge(right, on='SP_NAIH', how='left').fillna({'CUSTO_TOTAL_OPME_AIH': 0}):
\* one output row per (left row, matching right row), and one row with the
\* right-hand column filled with 0 for a left row without a match.
MergeCustoLeft(left, right) ==
    LET matches(l) == SelectSeq(right, LAMBDA r : r.SP_NAIH = l.SP_NAIH)
        joined(l) ==
            IF matches(l) = <<>>
            THEN <<[SP_NAIH |-> l.SP_NAIH, VAL_SH |-> l.VAL_SH, VAL_SP |-> l.VAL_SP,
                    CUSTO_TOTAL_OPME_AIH |-> 0]>>
            ELSE [i \in DOMAIN matches(l) |->
                     [SP_NAIH |-> l.SP_NAIH, VAL_SH |-> l.VAL_SH, VAL_SP |-> l.VAL_SP,
                      CUSTO_TOTAL_OPME_AIH |-> matches(l)[i].CUSTO_TOTAL_OPME_AIH]]
    IN  Concat([p \in DOMAIN left |-> joined(left[p])])

calcular_custo_total_aih(lines, view) ==
    IF lines = <<>> \/ view = <<>> THEN EmptyResult
    ELSE LET m == MergeCustoLeft(view, CustoOpmePorAih(lines))
         IN  Table([p \in DOMAIN m |->
                 [SP_NAIH |-> m[p].SP_NAIH, VAL_SH |-> m[p].VAL_SH, VAL_SP |-> m[p].VAL_SP,
                  CUSTO_TOTAL_OPME_AIH |-> m[p].CUSTO_TOTAL_OPME_AIH,
                  CUSTO_TOTAL_AIH |-> m[p].VAL_SH + m[p].VAL_SP + m[p].CUSTO_TOTAL_OPME_AIH]])

\* A claim view: at most n rows, one per claim id, in ascending id order (the
\* order groupby('SP_NAIH') leaves and every filter keeps).
ClaimViews(Row, n) ==
    {v \in SeqsUpTo(Row, n) : \A i, j \in DOMAIN v : i < j => v[i].SP_NAIH < v[j].SP_NAIH}

\* Bounds of the cost roll-up runs.
MaxCustoLines == 3
MaxCustoClaims == 2

CustoLine == [SP_NAIH : {1, 2}, IS_OPME : BOOLEAN, SP_VALATO : {5, 7}]
CustoClaimRow == [SP_NAIH : {1, 2, 3}, VAL_SH : {0, 10}, VAL_SP : {3}]

InitCusto ==
    /\ pc = "ready"
    /\ df \in SeqsUpTo(CustoLine, MaxCustoLines)
    /\ aih \in ClaimViews(CustoClaimRow, MaxCustoClaims)
    /\ forn = <<>>
    /\ cols = {}
    /\ out = EmptyResult
    /\ uploaded = <<>>
    /\ session_state = <<>>
    /\ hashseed = 0
    /\ chamadas = <<>>

\* The physicians tab: the roll-up is computed on every script run, and only
\* when the filtered line view is not empty.
tab_medicos ==
    /\ pc \in {"ready", "done"}
    /\ df # <<>>
    /\ out' = calcular_custo_total_aih(df, aih)
    /\ pc' = "done"
    /\ UNCHANGED <<df, aih, forn, cols, chamadas, hashseed, session_state, uploaded>>

NextCusto == tab_medicos

SpecCusto == InitCusto /\ [][NextCusto]_vars

RECURSIVE DeviceCost(_, _)
\* The sum of SP_VALATO over the device lines of claim c.
DeviceCost(lines, c) ==
    IF lines = <<>> THEN 0
    ELSE (IF Head(lines).IS_OPME /\ Head(lines).SP_NAIH = c THEN Head(lines).SP_VALATO ELSE 0)
         + DeviceCost(Tail(lines), c)

-----------------------------------------------------------------------------
(* analisar_reinternacoes: early readmissions.                             *)

REINTERNACAO_DIAS_LIMITE == 30

\* The window test on DIAS_ENTRE_INTERNACOES with the upper bound included.
GapInWindowInclusive(gap) == gap <= REINTERNACAO_DIAS_LIMITE /\ gap >= 0

\* (DIAS < REINTERNACAO_DIAS_LIMITE) & (DIAS >= 0), on a non-null gap.
GapInWindow(gap) == gap < REINTERNACAO_DIAS_LIMITE /\ gap >= 0

\* The columns of the one-row-per-claim view.
AihCols == {"SP_NAIH", "VAL_SH", "VAL_SP", "SP_DTINTER", "SP_DTSAIDA",
            "PACCNS", "NOME", "SP_CNES", "SP_UF"}

analisar_reinternacoes(view, c) ==
    IF view = <<>> \/ ~({"PACCNS", "SP_DTINTER", "SP_DTSAIDA"} \subseteq c) THEN EmptyResult
    ELSE
    LET \* sort_values(['PACCNS', 'SP_DTINTER'])
        s == StableSortAsc(view,
                 [i \in DOMAIN view |-> NaLast(view[i].PACCNS) \o NaLast(view[i].SP_DTINTER)])
        \* groupby('PACCNS')['SP_DTSAIDA'].shift(1): the discharge date of the
        \* previous row of the same patient; null for the first row of a
        \* patient and for rows without a patient id.
        before(p) == {q \in 1..(p - 1) : s[q].PACCNS = s[p].PACCNS}
        anterior(p) ==
            IF s[p].PACCNS = NULL \/ before(p) = {} THEN NULL
            ELSE s[CHOOSE q \in before(p) : \A r \in before(p) : r <= q].SP_DTSAIDA
        gapna(p) == s[p].SP_DTINTER = NULL \/ anterior(p) = NULL
        gap(p) == s[p].SP_DTINTER - anterior(p)
        hit == {p \in DOMAIN s : ~gapna(p) /\ GapInWindow(gap(p))}
        idx == AscSeq(hit)
    IN  IF hit = {} THEN EmptyResult
        ELSE IF ~({"SP_NAIH", "PACCNS", "NOME", "SP_DTINTER"} \subseteq c) THEN Raised
        ELSE Table([k \in DOMAIN idx |->
                 [SP_NAIH |-> s[idx[k]].SP_NAIH, PACCNS |-> s[idx[k]].PACCNS,
                  SP_DTINTER |-> s[idx[k]].SP_DTINTER,
                  DATA_SAIDA_ANTERIOR |-> anterior(idx[k]),
                  DIAS_ENTRE_INTERNACOES |-> gap(idx[k])]])

\* Bound: number of claims in the view of a readmission run.
MaxReintClaims == 3

\* Day numbers giving the gaps -1, 0, 29 and 30.
\* A row without a patient id belongs to no group, so one pair of dates
\* that would be in the window is enough for it.
ReintFields ==
    [PACCNS : {1, 2}, SP_DTINTER : {NULL, 1, 31}, SP_DTSAIDA : {NULL, 1, 2}]
    \cup [PACCNS : {NULL}, SP_DTINTER : {1, 31}, SP_DTSAIDA : {2}]

\* Claim views with claim ids 1..k in ascending order.
ReintViews ==
    {[p \in DOMAIN f |-> [SP_NAIH |-> p, PACCNS |-> f[p].PACCNS,
                          SP_DTINTER |-> f[p].SP_DTINTER, SP_DTSAIDA |-> f[p].SP_DTSAIDA]] :
        f \in SeqsUpTo(ReintFields, MaxReintClaims)}

InitReint ==
    /\ pc = "ready"
    /\ df = <<>>
    /\ aih \in ReintViews
    /\ forn = <<>>
    /\ cols = AihCols
    /\ out = EmptyResult
    /\ uploaded = <<>>
    /\ session_state = <<>>
    /\ hashseed = 0
    /\ chamadas = <<>>

run_reinternacoes ==
    /\ pc = "ready"
    /\ out' = analisar_reinternacoes(aih, cols)
    /\ pc' = "done"
    /\ UNCHANGED <<df, aih, forn, cols, chamadas, hashseed, session_state, uploaded>>

NextReint == run_reinternacoes

SpecReint == InitReint /\ [][NextReint]_vars

\* Row j of the view comes before row i in the patient's admission order:
\* earlier admission date (missing dates last), input order on a tie.
AdmittedBefore(j, i) ==
    /\ aih[j].PACCNS = aih[i].PACCNS
    /\ j # i
    /\ \/ aih[j].SP_DTINTER # NULL /\ aih[i].SP_DTINTER = NULL
       \/ aih[j].SP_DTINTER # NULL /\ aih[i].SP_DTINTER # NULL
          /\ aih[j].SP_DTINTER < aih[i].SP_DTINTER
       \/ aih[j].SP_DTINTER = aih[i].SP_DTINTER /\ j < i

\* Row j is the claim immediately preceding row i for the same patient.
ImmediatelyPrecedes(j, i) ==
    /\ AdmittedBefore(j, i)
    /\ \A k \in DOMAIN aih : AdmittedBefore(k, i) => (k = j \/ AdmittedBefore(k, j))

\* The readmissions of the view: (claim id, gap in days) of every claim of a
\* known patient whose admission follows the discharge of the immediately
\* preceding claim by 0 <= gap < 30 days.
ExpectedReadmissions ==
    {<<aih[i].SP_NAIH, aih[i].SP_DTINTER - aih[j].SP_DTSAIDA>> :
        <<j, i>> \in {x \in (DOMAIN aih) \X (DOMAIN aih) :
            /\ aih[x[2]].PACCNS # NULL
            /\ ImmediatelyPrecedes(x[1], x[2])
            /\ aih[x[2]].SP_DTINTER # NULL
            /\ aih[x[1]].SP_DTSAIDA # NULL
            /\ aih[x[2]].SP_DTINTER - aih[x[1]].SP_DTSAIDA >= 0
            /\ aih[x[2]].SP_DTINTER - aih[x[1]].SP_DTSAIDA < 30}}

\* C4: the early-readmission detector flags a claim exactly when the gap
\* between its admission and the discharge of the same patient's immediately
\* preceding claim (by admission date) is 0 <= gap < 30 days, and reports that
\* gap; a gap of 30, a negative gap, a patient's first claim and a claim with
\* a missing date are not flagged.
C4_ReadmissionWindow ==
    pc = "done" =>
        /\ out.kind = "table"
        /\ {<<out.rows[k].SP_NAIH, out.rows[k].DIAS_ENTRE_INTERNACOES>> : k \in DOMAIN out.rows}
              = ExpectedReadmissions
        /\ Cardinality(ExpectedReadmissions) = Len(out.rows)

\* A run that flags a gap of 29 days and leaves unflagged a claim whose gap
\* to the immediately preceding claim is exactly 30 days.
C4_Witness ==
    /\ pc = "done"
    /\ \E k \in DOMAIN out.rows : out.rows[k].DIAS_ENTRE_INTERNACOES = 29
    /\ \E i, j \in DOMAIN aih :
          /\ aih[i].PACCNS # NULL
          /\ ImmediatelyPrecedes(j, i)
          /\ aih[i].SP_DTINTER = 31 /\ aih[j].SP_DTSAIDA = 1
          /\ \A k \in DOMAIN out.rows : out.rows[k].SP_NAIH # aih[i].SP_NAIH

-----------------------------------------------------------------------------
(* analisar_fornecedores_opme_concentrados: concentrated device suppliers. *)

CONCENTRACAO_FORNECEDOR_PERC_LIMITE == 50

\* The columns of the claim-line view.
DfCols == {"SP_NAIH", "NOME", "PACCNS", "DESC_ATO_PROF", "MEDICO", "VAL_SH", "VAL_SP",
           "SP_ATOPROF", "SP_VALATO", "PROC_REA", "DESC_PROC_REAL", "SP_DTINTER",
           "SP_DTSAIDA", "SP_PJ_DOC", "SP_NF", "SP_UF", "SP_CNES", "SP_GESTOR", "SP_AA",
           "SP_MM", "SP_PF_DOC", "IS_OPME", "ANO_INTERNACAO", "MES_ANO_INTERNACAO"}

\* The column c of rows t, as a sequence of cells.
Column(t, c) == [i \in DOMAIN t |-> t[i][c]]

\* (num / den * 100).round(2) in hundredths of a percent, for num >= 0 and
\* den > 0: the nearest hundredth, an exact half going to the even neighbour
\* (numpy's rint).
PercentRound2(num, den) ==
    LET q == (num * 10000) \div den
        r == (num * 10000) % den
    IN  IF 2 * r > den THEN q + 1
        ELSE IF 2 * r = den THEN q + (q % 2)
        ELSE q

\* fornecedor_share.merge(df_fornecedores[['CNPJ', 'RAZAO_SOCIAL']],
\*     left_on='SP_PJ_DOC', right_on='CNPJ', how='left'): one row per matching
\* registry row, one row with a null name without a match.
MergeRazaoSocial(left, registry) ==
    LET matches(l) == SelectSeq(registry, LAMBDA g : g.CNPJ = l.SP_PJ_DOC)
        named(l, nome) == [SP_PJ_DOC |-> l.SP_PJ_DOC, RAZAO_SOCIAL |-> nome,
                           VALOR_TOTAL_OPME |-> l.VALOR_TOTAL_OPME,
                           PERCENTUAL_VALOR |-> l.PERCENTUAL_VALOR]
        joined(l) == IF matches(l) = <<>> THEN <<named(l, NULL)>>
                     ELSE [i \in DOMAIN matches(l) |-> named(l, matches(l)[i].RAZAO_SOCIAL)]
    IN  Concat([p \in DOMAIN left |-> joined(left[p])])

analisar_fornecedores_opme_concentrados(lines, registry, c) ==
    IF lines = <<>> \/ ~({"IS_OPME", "SP_VALATO", "SP_PJ_DOC", "SP_NAIH"} \subseteq c)
    THEN EmptyResult
    ELSE
    LET df_opme == SelectSeq(lines, LAMBDA r : r.IS_OPME)
        total_opme_valor == SumSeq(Column(df_opme, "SP_VALATO"))
        keys == AscSeq(GroupKeys(df_opme, "SP_PJ_DOC"))
        valor(k) == SumSeq(Column(SelectSeq(df_opme, LAMBDA r : r.SP_PJ_DOC = k), "SP_VALATO"))
        fornecedor_share ==
            [p \in DOMAIN keys |->
                [SP_PJ_DOC |-> keys[p], RAZAO_SOCIAL |-> NULL,
                 VALOR_TOTAL_OPME |-> valor(keys[p]),
                 PERCENTUAL_VALOR |-> PercentRound2(valor(keys[p]), total_opme_valor)]]
        merged == IF registry # <<>> THEN MergeRazaoSocial(fornecedor_share, registry)
                  ELSE fornecedor_share
        concentrados ==
            SelectSeq(merged, LAMBDA r :
                r.PERCENTUAL_VALOR > CONCENTRACAO_FORNECEDOR_PERC_LIMITE * 100)
    IN  IF df_opme = <<>> \/ ~(total_opme_valor > 0) \/ concentrados = <<>> THEN EmptyResult
        ELSE Table(StableSortAsc(concentrados,
                 [i \in DOMAIN concentrados |-> NaLastDesc(concentrados[i].PERCENTUAL_VALOR)]))

\* Bound: number of claim lines of a supplier-concentration run.
MaxFornLines == 3

\* Device values that give shares of 50%, of 50.0025% (10001 of 20001) and above.
FornLine == [IS_OPME : BOOLEAN, SP_PJ_DOC : {NULL, 1, 2}, SP_VALATO : {0, 10000, 10001}]

FornRegistries ==
    {<<>>, <<[CNPJ |-> 1, RAZAO_SOCIAL |-> 11]>>,
     <<[CNPJ |-> 1, RAZAO_SOCIAL |-> 11], [CNPJ |-> 2, RAZAO_SOCIAL |-> 12]>>}

InitForn ==
    /\ pc = "ready"
    /\ df \in SeqsUpTo(FornLine, MaxFornLines)
    /\ aih = <<>>
    /\ forn \in FornRegistries
    /\ cols = DfCols
    /\ out = EmptyResult
    /\ uploaded = <<>>
    /\ session_state = <<>>
    /\ hashseed = 0
    /\ chamadas = <<>>

run_fornecedores_opme_concentrados ==
    /\ pc = "ready"
    /\ out' = analisar_fornecedores_opme_concentrados(df, forn, cols)
    /\ pc' = "done"
    /\ UNCHANGED <<df, aih, forn, cols, chamadas, hashseed, session_state, uploaded>>

NextForn == run_fornecedores_opme_concentrados

SpecForn == InitForn /\ [][NextForn]_vars

\* The device spend of payee k in the view, and the total device spend.
PayeeSpend(k) ==
    SumSeq([i \in DOMAIN df |->
               IF df[i].IS_OPME /\ df[i].SP_PJ_DOC = k THEN df[i].SP_VALATO ELSE 0])

TotalDeviceSpend ==
    SumSeq([i \in DOMAIN df |-> IF df[i].IS_OPME THEN df[i].SP_VALATO ELSE 0])

\* C5: the concentrated-supplier detector flags a payee exactly when its share
\* of the total device spend is strictly greater than 50% (a share of exactly
\* 50% is not flagged, any share above 50% is, also one between 50% and
\* 50.01%), and the result is ordered by share descending.
C5_FlaggedIffShareAboveHalf ==
    pc = "done" =>
        /\ out.kind = "table"
        /\ {out.rows[p].SP_PJ_DOC : p \in DOMAIN out.rows}
              = {k \in {1, 2} : 2 * PayeeSpend(k) > TotalDeviceSpend}
        /\ \A p, q \in DOMAIN out.rows :
              p < q => out.rows[p].PERCENTUAL_VALOR >= out.rows[q].PERCENTUAL_VALOR

-----------------------------------------------------------------------------
(* analisar_outliers_custo_opme: device cost outliers (IQR).               *)

\* Series.quantile(k/4) of the non-empty integer column v, times 4: linear
\* interpolation between the order statistics around position (n-1)*k/4.
QuantileX4(v, k) ==
    LET n == Len(v)
        x == StableSortAsc(v, [i \in DOMAIN v |-> <<v[i]>>])
        h == (n - 1) * k
        lo == (h \div 4) + 1
        hi == IF lo < n THEN lo + 1 ELSE n
    IN  4 * x[lo] + (h % 4) * (x[hi] - x[lo])

\* limite_superior = Q3 + 1.5 * (Q3 - Q1), times 8.
LimiteSuperiorX8(v) ==
    LET Q1 == QuantileX4(v, 1)
        Q3 == QuantileX4(v, 3)
    IN  2 * Q3 + 3 * (Q3 - Q1)

\* The row filter with zero-valued lines let in.
OpmeNonNegative(r) == r.IS_OPME /\ r.SP_VALATO >= 0

\* df['IS_OPME'] & (df['SP_VALATO'] > 0)
OpmePositive(r) == r.IS_OPME /\ r.SP_VALATO > 0

analisar_outliers_custo_opme(lines, c) ==
    IF lines = <<>> \/ ~({"IS_OPME", "SP_VALATO"} \subseteq c) THEN EmptyResult
    ELSE
    LET opme_data == SelectSeq(lines, OpmePositive)
        limite == LimiteSuperiorX8(Column(opme_data, "SP_VALATO"))
        outliers == SelectSeq(opme_data, LAMBDA r : 8 * r.SP_VALATO > limite)
    IN  IF opme_data = <<>> \/ outliers = <<>> THEN EmptyResult
        ELSE IF ~({"SP_NAIH", "NOME", "MEDICO", "DESC_ATO_PROF", "SP_VALATO",
                   "SP_PJ_DOC", "SP_NF"} \subseteq c) THEN Raised
        ELSE Table(StableSortAsc([i \in DOMAIN outliers |-> [SP_VALATO |-> outliers[i].SP_VALATO]],
                                 [i \in DOMAIN outliers |-> NaLastDesc(outliers[i].SP_VALATO)]))

\* Bound: number of claim lines of an outlier run.
MaxOutlLines == 5

\* Device lines of value 0 (which fails SP_VALATO > 0 as a negative value
\* does), 10..13 and 1000, and a costly non-device line.
OutlLine == [IS_OPME : {TRUE}, SP_VALATO : {0, 10, 11, 12, 13, 1000}]
            \cup [IS_OPME : {FALSE}, SP_VALATO : {1000}]

InitOutl ==
    /\ pc = "ready"
    /\ df \in SeqsUpTo(OutlLine, MaxOutlLines)
    /\ aih = <<>>
    /\ forn = <<>>
    /\ cols = DfCols
    /\ out = EmptyResult
    /\ uploaded = <<>>
    /\ session_state = <<>>
    /\ hashseed = 0
    /\ chamadas = <<>>

run_outliers_custo_opme ==
    /\ pc = "ready"
    /\ out' = analisar_outliers_custo_opme(df, cols)
    /\ pc' = "done"
    /\ UNCHANGED <<df, aih, forn, cols, chamadas, hashseed, session_state, uploaded>>

NextOutl == run_outliers_custo_opme

SpecOutl == InitOutl /\ [][NextOutl]_vars

\* The lines that take part in the quartiles: device lines of positive value.
PositiveDeviceLines == {i \in DOMAIN df : df[i].IS_OPME /\ df[i].SP_VALATO > 0}

\* The k-th smallest value (k from 0) among the positive device lines: the
\* value with at most k values below it and more than k values not above it.
OrderStat(k) ==
    CHOOSE v \in {df[i].SP_VALATO : i \in PositiveDeviceLines} :
        /\ Cardinality({i \in PositiveDeviceLines : df[i].SP_VALATO < v}) <= k
        /\ Cardinality({i \in PositiveDeviceLines : df[i].SP_VALATO <= v}) > k

\* Four times the quartile k/4 of the positive device values.
QuartileX4(k) ==
    LET n == Cardinality(PositiveDeviceLines)
        lo == ((n - 1) * k) \div 4
        fr == ((n - 1) * k) % 4
    IN  IF fr = 0 THEN 4 * OrderStat(lo)
        ELSE (4 - fr) * OrderStat(lo) + fr * OrderStat(lo + 1)

\* The positive device lines strictly above Q3 + 1.5 * (Q3 - Q1).
AboveFence ==
    LET fenceX8 == 5 * QuartileX4(3) - 3 * QuartileX4(1)
    IN  {i \in PositiveDeviceLines : 8 * df[i].SP_VALATO > fenceX8}

\* C6: the outlier detector takes Q1 and Q3 over the device lines of positive
\* value only, sets the fence at Q3 + 1.5 * (Q3 - Q1) and returns exactly the
\* positive device lines strictly above the fence, by value descending; for
\* the values 10, 12, 11, 13, 1000 it returns 1000 alone.
C6_OutliersAboveIqrFence ==
    pc = "done" =>
        LET flagged == AboveFence
        IN  /\ out.kind = "table"
            /\ Len(out.rows) = Cardinality(flagged)
            /\ \A v \in {df[i].SP_VALATO : i \in flagged} :
                  Cardinality({p \in DOMAIN out.rows : out.rows[p].SP_VALATO = v})
                     = Cardinality({i \in flagged : df[i].SP_VALATO = v})
            /\ \A p, q \in DOMAIN out.rows :
                  p < q => out.rows[p].SP_VALATO >= out.rows[q].SP_VALATO
            /\ Column(df, "SP_VALATO") = <<10, 12, 11, 13, 1000>>
                  /\ (\A i \in DOMAIN df : df[i].IS_OPME)
                  => Column(out.rows, "SP_VALATO") = <<1000>>

\* A run on the device values 10, 12, 11, 13, 1000.
C6_Witness ==
    /\ pc = "done"
    /\ Column(df, "SP_VALATO") = <<10, 12, 11, 13, 1000>>
    /\ \A i \in DOMAIN df : df[i].IS_OPME
    /\ Column(out.rows, "SP_VALATO") = <<1000>>

-----------------------------------------------------------------------------
(* analisar_procedimentos_dias_nao_uteis: weekend-heavy procedures.        *)

LIMITE_PERC_PROC_FDS == 30
LIMITE_QTD_PROC_FDS_ABS == 3

\* Series.dt.day_name() of a day number, day 0 being a Monday:
\* 0 = Monday, ..., 5 = Saturday, 6 = Sunday.
DiaSemana(d) == d % 7

Saturday == 5
Sunday == 6

\* The compound condition with OR in place of AND.
SuspeitoFdsOr(perc, total_fds) ==
    perc > LIMITE_PERC_PROC_FDS * 100 \/ total_fds > LIMITE_QTD_PROC_FDS_ABS

\* (PERC_FDS > LIMITE_PERC_PROC_FDS) & (TOTAL_FDS > LIMITE_QTD_PROC_FDS_ABS),
\* PERC_FDS in hundredths of a percent.
SuspeitoFds(perc, total_fds) ==
    perc > LIMITE_PERC_PROC_FDS * 100 /\ total_fds > LIMITE_QTD_PROC_FDS_ABS

analisar_procedimentos_dias_nao_uteis(lines, c) ==
    IF lines = <<>> \/ ~({"SP_DTINTER", "DESC_PROC_REAL", "SP_NAIH"} \subseteq c) THEN EmptyResult
    ELSE
    LET df_com_dia_semana == SelectSeq(lines, LAMBDA r : r.SP_DTINTER # NULL)
        com_proc == SelectSeq(df_com_dia_semana, LAMBDA r : r.DESC_PROC_REAL # NULL)
        \* groupby(['DESC_PROC_REAL', 'DIA_SEMANA'])['SP_NAIH'].nunique(), pivoted
        \* with fillna(0): 0 where the procedure has no line on the day.
        qtd(proc, dia) ==
            Cardinality({com_proc[i].SP_NAIH : i \in
                {j \in DOMAIN com_proc : /\ com_proc[j].DESC_PROC_REAL = proc
                                         /\ DiaSemana(com_proc[j].SP_DTINTER) = dia}} \ {NULL})
        procs == AscSeq(GroupKeys(com_proc, "DESC_PROC_REAL"))
        \* the pivot's columns: the days on which some line of the view falls
        dias == {DiaSemana(com_proc[i].SP_DTINTER) : i \in DOMAIN com_proc}
        total_fds(proc) == qtd(proc, Saturday) + qtd(proc, Sunday)
        soma_dias(proc) == SumSeq([d \in 1..7 |-> qtd(proc, d - 1)])
        \* sum(axis=1) runs over the day columns and the TOTAL_FDS column just
        \* added; TOTAL_FDS is subtracted once and added once more.
        total_semana_calc(proc) ==
            ((soma_dias(proc) + total_fds(proc)) - total_fds(proc)) + total_fds(proc)
        pivot == [p \in DOMAIN procs |->
                     [DESC_PROC_REAL |-> procs[p],
                      TOTAL_FDS |-> total_fds(procs[p]),
                      TOTAL_SEMANA_CALC |-> total_semana_calc(procs[p]),
                      PERC_FDS |-> IF total_semana_calc(procs[p]) = 0 THEN NULL
                                   ELSE PercentRound2(total_fds(procs[p]),
                                                      total_semana_calc(procs[p]))]]
        suspeitos_fds == SelectSeq(pivot, LAMBDA r : SuspeitoFds(r.PERC_FDS, r.TOTAL_FDS))
    IN  IF com_proc = <<>> THEN EmptyResult
        ELSE IF Saturday \in dias /\ Sunday \in dias /\ suspeitos_fds # <<>>
        THEN Table(StableSortAsc(suspeitos_fds,
                 [i \in DOMAIN suspeitos_fds |-> NaLastDesc(suspeitos_fds[i].PERC_FDS)]))
        ELSE EmptyResult

\* Bounds of the weekend runs: lines of a free view, claims per day of a
\* one-line-per-claim view.
MaxFdsLines == 4
MaxFdsPerDay == 6

\* The lines a free view is made of: procedure 1 for claims 1..4 admitted on
\* a Monday (day 0), a Saturday (5) or a Sunday (6); lines of procedure 2; and
\* lines without a date, without a procedure, without a claim id.
FdsLines ==
    [k \in 1..12 |->
        [SP_NAIH |-> ((k - 1) % 4) + 1, DESC_PROC_REAL |-> 1,
         SP_DTINTER |-> <<0, 5, 6>>[((k - 1) \div 4) + 1]]]
    \o <<[SP_NAIH |-> 1, DESC_PROC_REAL |-> 2, SP_DTINTER |-> 5],
         [SP_NAIH |-> 1, DESC_PROC_REAL |-> 2, SP_DTINTER |-> 6],
         [SP_NAIH |-> 2, DESC_PROC_REAL |-> 2, SP_DTINTER |-> 0],
         [SP_NAIH |-> 1, DESC_PROC_REAL |-> 1, SP_DTINTER |-> NULL],
         [SP_NAIH |-> 1, DESC_PROC_REAL |-> NULL, SP_DTINTER |-> 5],
         [SP_NAIH |-> NULL, DESC_PROC_REAL |-> 1, SP_DTINTER |-> 6]>>

RECURSIVE IncreasingSeqs(_, _, _)
\* The strictly increasing sequences over lo..hi of length at most n.
IncreasingSeqs(lo, hi, n) ==
    IF n = 0 THEN {<<>>}
    ELSE {<<>>} \cup UNION {{<<k>> \o t : t \in IncreasingSeqs(k + 1, hi, n - 1)} : k \in lo..hi}

\* Free views: up to MaxFdsLines distinct lines (line order and repeated lines
\* do not reach the per-day distinct counts).
FdsFreeViews ==
    {[i \in DOMAIN ks |-> FdsLines[ks[i]]] : ks \in IncreasingSeqs(1, Len(FdsLines), MaxFdsLines)}

\* One-line-per-claim views of procedure 1: a claims on a Monday, then b on a
\* Saturday, then c on a Sunday.
FdsCountView(a, b, c) ==
    [i \in 1..(a + b + c) |->
        [SP_NAIH |-> i, DESC_PROC_REAL |-> 1,
         SP_DTINTER |-> IF i <= a THEN 0 ELSE IF i <= a + b THEN 5 ELSE 6]]

FdsCountViews ==
    {FdsCountView(a, b, c) : a \in 0..MaxFdsPerDay, b \in 0..MaxFdsPerDay, c \in 0..MaxFdsPerDay}

InitFds ==
    /\ pc = "ready"
    /\ df \in FdsFreeViews \cup FdsCountViews
    /\ aih = <<>>
    /\ forn = <<>>
    /\ cols = DfCols
    /\ out = EmptyResult
    /\ uploaded = <<>>
    /\ session_state = <<>>
    /\ hashseed = 0
    /\ chamadas = <<>>

run_procedimentos_dias_nao_uteis ==
    /\ pc = "ready"
    /\ out' = analisar_procedimentos_dias_nao_uteis(df, cols)
    /\ pc' = "done"
    /\ UNCHANGED <<df, aih, forn, cols, chamadas, hashseed, session_state, uploaded>>

NextFds == run_procedimentos_dias_nao_uteis

SpecFds == InitFds /\ [][NextFds]_vars

\* The distinct claims with a line of procedure p admitted on one of days.
ClaimsOn(p, days) ==
    {df[i].SP_NAIH : i \in {j \in DOMAIN df : /\ df[j].DESC_PROC_REAL = p
                                               /\ df[j].SP_DTINTER # NULL
                                               /\ DiaSemana(df[j].SP_DTINTER) \in days}}
        \ {NULL}

ProcsOfView == {df[i].DESC_PROC_REAL : i \in DOMAIN df} \ {NULL}

FlaggedProcs == {out.rows[k].DESC_PROC_REAL : k \in DOMAIN out.rows}

\* C7: the weekend-heavy detector flags a procedure exactly when its distinct
\* claims admitted on Saturday or Sunday, divided by its distinct claims
\* admitted on any of the seven days, exceed 30% and the weekend count
\* exceeds 3, in any view, also one without a Saturday line or without a
\* Sunday line.
C7_FlaggedIffWeekendHeavy ==
    pc = "done" =>
        FlaggedProcs =
            {p \in ProcsOfView :
                /\ 100 * Cardinality(ClaimsOn(p, {Saturday, Sunday}))
                      > 30 * Cardinality(ClaimsOn(p, 0..6))
                /\ Cardinality(ClaimsOn(p, {Saturday, Sunday})) > 3}

-----------------------------------------------------------------------------
(* analisar_pacientes_duplicados: patient ids with several names.          *)

RECURSIVE Unique(_)
\* Series.unique(): the distinct values in order of first appearance, a null
\* among them.
Unique(x) ==
    IF x = <<>> THEN <<>>
    ELSE LET u == Unique(SubSeq(x, 1, Len(x) - 1))
         IN  IF \E i \in DOMAIN u : u[i] = x[Len(x)] THEN u ELSE Append(u, x[Len(x)])

\* x.unique()[:3]
FirstThree(u) == SubSeq(u, 1, IF Len(u) < 3 THEN Len(u) ELSE 3)

\* sorted(...) and ', '.join(...) of format_aihs / format_medicos raise
\* TypeError when a null (a float) is among the strings.
FormatRaises(x) == \E i \in DOMAIN FirstThree(Unique(x)) : FirstThree(Unique(x))[i] = NULL

\* format_aihs / format_medicos: the first three distinct values, sorted and
\* joined, and '...' appended when there are more than three distinct values.
FormatItems(x) ==
    LET items == FirstThree(Unique(x))
    IN  [items |-> StableSortAsc(items, [i \in DOMAIN items |-> <<items[i]>>]),
         ellipsis |-> Len(Unique(x)) > 3]

analisar_pacientes_duplicados(lines, c) ==
    IF lines = <<>> \/ ~({"PACCNS", "NOME", "SP_NAIH", "MEDICO"} \subseteq c) THEN EmptyResult
    ELSE
    LET \* groupby('PACCNS')['NOME'].nunique() > 1
        paccns_duplicados ==
            {p \in GroupKeys(lines, "PACCNS") :
                Cardinality({lines[i].NOME : i \in {j \in DOMAIN lines : lines[j].PACCNS = p}}
                            \ {NULL}) > 1}
        df_duplicados == SelectSeq(lines, LAMBDA r : r.PACCNS \in paccns_duplicados)
        ids == AscSeq(paccns_duplicados)
        nomes(p) == AscSeq(GroupKeys(SelectSeq(df_duplicados, LAMBDA r : r.PACCNS = p), "NOME"))
        \* the groups of groupby(['PACCNS', 'NOME']), keys ascending, null names dropped
        chaves == Concat([k \in DOMAIN ids |->
                     [n \in DOMAIN nomes(ids[k]) |-> <<ids[k], nomes(ids[k])[n]>>]])
        grupo(k) == SelectSeq(df_duplicados, LAMBDA r : r.PACCNS = k[1] /\ r.NOME = k[2])
        resultado ==
            [g \in DOMAIN chaves |->
                [PACCNS |-> chaves[g][1],
                 NOME |-> chaves[g][2],
                 AIHS |-> FormatItems(Column(grupo(chaves[g]), "SP_NAIH")),
                 MEDICOS |-> FormatItems(Column(grupo(chaves[g]), "MEDICO")),
                 QTD_AIHS |-> Cardinality({grupo(chaves[g])[i].SP_NAIH :
                                              i \in DOMAIN grupo(chaves[g])} \ {NULL})]]
    IN  IF paccns_duplicados = {} THEN EmptyResult
        ELSE IF \E g \in DOMAIN chaves :
                    \/ FormatRaises(Column(grupo(chaves[g]), "SP_NAIH"))
                    \/ FormatRaises(Column(grupo(chaves[g]), "MEDICO"))
        THEN Raised
        ELSE Table(StableSortAsc(resultado,
                 [i \in DOMAIN resultado |-> <<resultado[i].PACCNS, 0 - resultado[i].QTD_AIHS>>]))

\* Bounds of the multiple-name runs: lines of a free view, claims per name of
\* a one-patient view.
MaxDupLines == 4
MaxDupPerName == 4

\* The lines a free view is made of: patient 1 under names 1 and 2 in claims 1
\* and 2, patient 2 under names 1 and 2 in claim 1, and lines without a
\* physician, a name, a patient id, a claim id.
DupLines ==
    {[PACCNS |-> 1, NOME |-> n, SP_NAIH |-> a, MEDICO |-> 1] : n \in {1, 2}, a \in {1, 2}}
    \cup {[PACCNS |-> 2, NOME |-> n, SP_NAIH |-> 1, MEDICO |-> 1] : n \in {1, 2}}
    \cup {[PACCNS |-> 1, NOME |-> 1, SP_NAIH |-> 1, MEDICO |-> NULL],
          [PACCNS |-> 1, NOME |-> NULL, SP_NAIH |-> 1, MEDICO |-> 1],
          [PACCNS |-> NULL, NOME |-> 1, SP_NAIH |-> 1, MEDICO |-> 1],
          [PACCNS |-> 1, NOME |-> 2, SP_NAIH |-> NULL, MEDICO |-> 1]}

\* One-patient views: claims a, a-1, .., 1 under name 1, each with its own
\* physician, then claims 1, .., b under name 2.
DupCountView(a, b) ==
    [i \in 1..(a + b) |->
        IF i <= a
        THEN [PACCNS |-> 1, NOME |-> 1, SP_NAIH |-> (a + 1) - i, MEDICO |-> (a + 1) - i]
        ELSE [PACCNS |-> 1, NOME |-> 2, SP_NAIH |-> i - a, MEDICO |-> 1]]

DupViews ==
    SeqsUpTo(DupLines, MaxDupLines)
    \cup {DupCountView(a, b) : a \in 0..MaxDupPerName, b \in 0..MaxDupPerName}

InitDup ==
    /\ pc = "ready"
    /\ df \in DupViews
    /\ aih = <<>>
    /\ forn = <<>>
    /\ cols = DfCols
    /\ out = EmptyResult
    /\ uploaded = <<>>
    /\ session_state = <<>>
    /\ hashseed = 0
    /\ chamadas = <<>>

run_pacientes_duplicados ==
    /\ pc = "ready"
    /\ out' = analisar_pacientes_duplicados(df, cols)
    /\ pc' = "done"
    /\ UNCHANGED <<df, aih, forn, cols, chamadas, hashseed, session_state, uploaded>>

NextDup == run_pacientes_duplicados

SpecDup == InitDup /\ [][NextDup]_vars

\* The distinct names of patient id p in the view.
NamesOf(p) == {df[i].NOME : i \in {j \in DOMAIN df : df[j].PACCNS = p}} \ {NULL}

\* The distinct claim ids of the lines of patient id p under name n.
ClaimIdsOfPair(p, n) ==
    {df[i].SP_NAIH : i \in {j \in DOMAIN df : df[j].PACCNS = p /\ df[j].NOME = n}} \ {NULL}

\* The (patient id, name) pairs of the ids with more than one distinct name.
MultiNamePairs ==
    {<<df[i].PACCNS, df[i].NOME>> : i \in
        {j \in DOMAIN df : /\ df[j].PACCNS # NULL
                           /\ df[j].NOME # NULL
                           /\ Cardinality(NamesOf(df[j].PACCNS)) > 1}}

\* C9: the multiple-names detector returns exactly one row per (patient id,
\* name) pair of every id with more than one distinct name and no row for
\* other ids; a row lists at most 3 distinct claim ids of its pair, with an
\* ellipsis when the pair has more than 3; rows are ordered by patient id
\* ascending, then claim count descending.
C9_OneRowPerIdNamePair ==
    pc = "done" =>
        /\ {<<out.rows[k].PACCNS, out.rows[k].NOME>> : k \in DOMAIN out.rows} = MultiNamePairs
        /\ Len(out.rows) = Cardinality(MultiNamePairs)
        /\ \A k \in DOMAIN out.rows :
              LET r == out.rows[k]
                  ids == ClaimIdsOfPair(r.PACCNS, r.NOME)
              IN  /\ Len(r.AIHS.items) <= 3
                  /\ \A i, j \in DOMAIN r.AIHS.items : i # j => r.AIHS.items[i] # r.AIHS.items[j]
                  /\ {r.AIHS.items[i] : i \in DOMAIN r.AIHS.items} \subseteq ids
                  /\ Cardinality(ids) > 3 => r.AIHS.ellipsis
        /\ \A k \in 1..(Len(out.rows) - 1) :
              LET r == out.rows[k]
                  t == out.rows[k + 1]
              IN  \/ r.PACCNS < t.PACCNS
                  \/ /\ r.PACCNS = t.PACCNS
                     /\ Cardinality(ClaimIdsOfPair(r.PACCNS, r.NOME))
                           >= Cardinality(ClaimIdsOfPair(t.PACCNS, t.NOME))

-----------------------------------------------------------------------------
(* Detectors called on empty and on schema-incomplete views.               *)

\* The text "N/A" of an invoice cell.
NF_NA == 1

\* The columns each detector reads: those of its guard and those it selects
\* for its result table.
ColsReinternacoes == {"PACCNS", "SP_DTINTER", "SP_DTSAIDA", "SP_NAIH", "NOME"}
ColsOutliersCustoOpme ==
    {"IS_OPME", "SP_VALATO", "SP_NAIH", "NOME", "MEDICO", "DESC_ATO_PROF", "SP_PJ_DOC", "SP_NF"}
ColsOpmeSemNf ==
    {"IS_OPME", "SP_NF", "SP_NAIH", "NOME", "MEDICO", "DESC_ATO_PROF", "SP_VALATO", "SP_PJ_DOC"}

analisar_opme_sem_nf(lines, c) ==
    IF lines = <<>> \/ ~({"IS_OPME", "SP_NF"} \subseteq c) THEN EmptyResult
    ELSE
    LET sem_nf == SelectSeq(lines, LAMBDA r : r.IS_OPME /\ (r.SP_NF = NULL \/ r.SP_NF = NF_NA))
    IN  IF sem_nf = <<>> THEN EmptyResult
        \* sem_nf[result_cols] raises KeyError on a column the view lacks
        ELSE IF ~({"SP_NAIH", "NOME", "MEDICO", "DESC_ATO_PROF", "SP_VALATO", "SP_PJ_DOC"}
                     \subseteq c) THEN Raised
        ELSE Table([i \in DOMAIN sem_nf |->
                 [SP_VALATO |-> sem_nf[i].SP_VALATO, SP_NF |-> sem_nf[i].SP_NF]])

\* Bounds of the schema runs: lines of the line view, claims of the claim view.
MaxAlertaLines == 4
MaxAlertaClaims == 2

\* Device lines of value 10 with an invoice, of value 1000 with "N/A" as
\* invoice and of value 10 without invoice, and a line that is no device.
AlertaLine ==
    {[IS_OPME |-> TRUE, SP_VALATO |-> 10, SP_NF |-> 5],
     [IS_OPME |-> TRUE, SP_VALATO |-> 1000, SP_NF |-> NF_NA],
     [IS_OPME |-> TRUE, SP_VALATO |-> 10, SP_NF |-> NULL],
     [IS_OPME |-> FALSE, SP_VALATO |-> 1000, SP_NF |-> NULL]}

\* Claim views of one patient, every claim admitted on day 31 and discharged
\* on day 2 (a gap of 29 days from the second claim on).
AlertaClaimViews ==
    {[p \in 1..k |-> [SP_NAIH |-> p, PACCNS |-> 1, SP_DTINTER |-> 31, SP_DTSAIDA |-> 2]] :
        k \in 0..MaxAlertaClaims}

\* The views carry every column, or every column but one.
AlertaCols ==
    {DfCols \cup AihCols}
    \cup {(DfCols \cup AihCols) \ {x} :
             x \in {"NOME", "SP_NAIH", "MEDICO", "IS_OPME", "SP_NF", "PACCNS"}}

InitAlertas ==
    /\ pc = "ready"
    /\ df \in SeqsUpTo(AlertaLine, MaxAlertaLines)
    /\ aih \in AlertaClaimViews
    /\ forn = <<>>
    /\ cols \in AlertaCols
    /\ out = EmptyResult
    /\ uploaded = <<>>
    /\ session_state = <<>>
    /\ hashseed = 0
    /\ chamadas = <<>>

alerta_reinternacoes_curto_periodo ==
    /\ pc = "ready"
    /\ out' = analisar_reinternacoes(aih, cols)
    /\ pc' = "reinternacoes_curto_periodo"
    /\ UNCHANGED <<df, aih, forn, cols, chamadas, hashseed, session_state, uploaded>>

alerta_outliers_custo_opme ==
    /\ pc = "ready"
    /\ out' = analisar_outliers_custo_opme(df, cols)
    /\ pc' = "outliers_custo_opme"
    /\ UNCHANGED <<df, aih, forn, cols, chamadas, hashseed, session_state, uploaded>>

alerta_opme_sem_nota_fiscal ==
    /\ pc = "ready"
    /\ out' = analisar_opme_sem_nf(df, cols)
    /\ pc' = "opme_sem_nota_fiscal"
    /\ UNCHANGED <<df, aih, forn, cols, chamadas, hashseed, session_state, uploaded>>

NextAlertas ==
    \/ alerta_reinternacoes_curto_periodo
    \/ alerta_outliers_custo_opme
    \/ alerta_opme_sem_nota_fiscal

SpecAlertas == InitAlertas /\ [][NextAlertas]_vars

\* The detector that ran was given an empty view or a view lacking a column
\* it reads.
EmptyOrIncompleteInput ==
    \/ pc = "reinternacoes_curto_periodo" /\ (aih = <<>> \/ ~(ColsReinternacoes \subseteq cols))
    \/ pc = "outliers_custo_opme" /\ (df = <<>> \/ ~(ColsOutliersCustoOpme \subseteq cols))
    \/ pc = "opme_sem_nota_fiscal" /\ (df = <<>> \/ ~(ColsOpmeSemNf \subseteq cols))

\* C10: a detector given an empty view, or a view lacking a column it reads
\* (a column it reads only to build its result table included), returns an
\* empty result and never raises.
C10_EmptyResultNeverRaises ==
    /\ out.kind # "raised"
    /\ EmptyOrIncompleteInput => out = EmptyResult

-----------------------------------------------------------------------------
(* tab_alertas: one alert run over the 17 detectors of the catalog.        *)

\* The keys of mapa_alertas, in the order of the dict literal.
Catalogo ==
    <<"reinternacoes_curto_periodo",
      "aih_multiplos_procedimentos_dia",
      "pacientes_multiplos_atos_profissionais",
      "medicos_alta_frequencia_atos_alto_custo",
      "aih_multiplos_opme",
      "fornecedores_opme_concentrados",
      "outliers_custo_opme",
      "notas_fiscais_opme_duplicadas",
      "opme_sem_nota_fiscal",
      "alta_proporcao_valsp_valsh",
      "alta_proporcao_custo_opme_total",
      "medicos_concentrados_por_hospital",
      "opme_sem_procedimento_principal_correspondente",
      "concentracao_medico_fornecedor_opme",
      "procedimentos_dias_nao_uteis",
      "analisar_pacientes_duplicados",
      "analisar_pacientes_multi_paccns">>

\* The keys of the explicacoes dict.
ExplicacoesKeys ==
    {"reinternacoes_curto_periodo", "aih_multiplos_procedimentos_dia",
     "pacientes_multiplos_atos_profissionais", "medicos_alta_frequencia_atos_alto_custo",
     "aih_multiplos_opme", "fornecedores_opme_concentrados", "outliers_custo_opme",
     "notas_fiscais_opme_duplicadas", "opme_sem_nota_fiscal", "alta_proporcao_valsp_valsh",
     "alta_proporcao_custo_opme_total", "medicos_concentrados_por_hospital",
     "opme_sem_procedimento_principal_correspondente",
     "concentracao_medico_fornecedor_opme", "procedimentos_dias_nao_uteis",
     "analisar_pacientes_duplicados", "analisar_pacientes_multi_paccns"}

\* explicacoes.get(tipo_alerta, "Descrição não disponível."); the text of a
\* key is written [texto |-> key].
get_explicacao_alerta(tipo_alerta) ==
    IF tipo_alerta \in ExplicacoesKeys THEN [texto |-> tipo_alerta]
    ELSE [texto |-> "Descrição não disponível."]

\* The detectors that are given the claim view only, and those given both views.
SoAihCustos == {"reinternacoes_curto_periodo", "alta_proporcao_valsp_valsh"}
AmbasVisoes == {"alta_proporcao_custo_opme_total", "medicos_concentrados_por_hospital"}

\* The detectors, other than analisar_pacientes_duplicados, that can have a
\* finding on the views: every detector returns an empty table when a view
\* it is given is empty.
PodemTerAchado(lines, view) ==
    {i \in DOMAIN Catalogo :
        /\ Catalogo[i] # "analisar_pacientes_duplicados"
        /\ Catalogo[i] \in SoAihCustos \cup AmbasVisoes => view # <<>>
        /\ Catalogo[i] \notin SoAihCustos => lines # <<>>}

\* A non-empty result table of a detector whose rows are not looked into.
Achado == Table(<<[achado |-> TRUE]>>)

\* Bounds of the alert runs: lines of the view, detectors with a finding.
MaxTabLines == 2
MaxAchados == 2

TabLine ==
    {[PACCNS |-> 1, NOME |-> 1, SP_NAIH |-> 1, MEDICO |-> 1],
     [PACCNS |-> 1, NOME |-> 2, SP_NAIH |-> 1, MEDICO |-> 1],
     [PACCNS |-> 1, NOME |-> 2, SP_NAIH |-> 1, MEDICO |-> NULL]}

InitTab ==
    /\ pc = "ready"
    /\ df \in SeqsUpTo(TabLine, MaxTabLines)
    /\ aih \in {<<>>, <<[SP_NAIH |-> 1]>>}
    /\ forn = <<>>
    /\ cols = DfCols
    /\ out = EmptyResult
    /\ uploaded = <<>>
    /\ session_state = <<>>
    /\ hashseed = 0
    /\ chamadas = <<>>

\* The results of the 17 calls of the dict literal, the detectors in
\* achados having a finding.
ResultadosAlertas(achados) ==
    [i \in DOMAIN Catalogo |->
        [alert_key |-> Catalogo[i],
         result |-> IF Catalogo[i] = "analisar_pacientes_duplicados"
                    THEN analisar_pacientes_duplicados(df, cols)
                    ELSE IF i \in achados THEN Achado ELSE EmptyResult]]

\* One run of the tab.  The dict literal calls the detectors in order; an
\* exception of a call leaves the script, the calls after it are not made
\* and nothing of the tab below the dict is run.  Otherwise every non-empty
\* result is shown with its explanation, in the order of the dict.
tab_alertas ==
    /\ pc = "ready"
    /\ \E achados \in {a \in SUBSET PodemTerAchado(df, aih) : Cardinality(a) <= MaxAchados} :
          LET res == ResultadosAlertas(achados)
              falhas == {i \in DOMAIN res : res[i].result.kind = "raised"}
              primeira == CHOOSE i \in falhas : \A j \in falhas : i <= j
              naovazios == SelectSeq(res, LAMBDA r : r.result.rows # <<>>)
          IN  IF df = <<>> /\ aih = <<>>
              THEN /\ chamadas' = <<>>
                   /\ out' = EmptyResult
                   /\ pc' = "done"
              ELSE IF falhas # {}
              THEN /\ chamadas' = SubSeq(res, 1, primeira)
                   /\ out' = Raised
                   /\ pc' = "exception"
              ELSE /\ chamadas' = res
                   /\ out' = Table([k \in DOMAIN naovazios |->
                                [alert_key |-> naovazios[k].alert_key,
                                 explicacao |-> get_explicacao_alerta(naovazios[k].alert_key)]])
                   /\ pc' = "done"
    /\ UNCHANGED <<df, aih, forn, cols, hashseed, session_state, uploaded>>

NextTab == tab_alertas

SpecTab == InitTab /\ [][NextTab]_vars

\* The keys the run reported.
Reported == {out.rows[k].alert_key : k \in DOMAIN out.rows}

\* C11: when one detector raises during an alert run, the run still reports
\* every non-empty result of the other detectors.
C11_OthersStillReported ==
    pc \in {"done", "exception"} =>
        \A i \in DOMAIN chamadas :
            (chamadas[i].result.kind = "table" /\ chamadas[i].result.rows # <<>>)
                => chamadas[i].alert_key \in Reported

\* C12: an alert run calls each of the 17 detectors of the catalog exactly
\* once, reports the non-empty results and only them, in catalog order, each
\* with the explanation of its own key, never the fallback text.
C12_EachDetectorOnceInCatalogOrder ==
    (pc \in {"done", "exception"} /\ ~(df = <<>> /\ aih = <<>>)) =>
        /\ [i \in DOMAIN chamadas |-> chamadas[i].alert_key] = Catalogo
        /\ Reported = {chamadas[i].alert_key : i \in
                          {j \in DOMAIN chamadas : chamadas[j].result.rows # <<>>}}
        /\ \A k \in DOMAIN out.rows :
              /\ out.rows[k].explicacao = [texto |-> out.rows[k].alert_key]
              /\ \A l \in DOMAIN out.rows :
                    k < l => \E i, j \in DOMAIN Catalogo :
                                /\ i < j
                                /\ Catalogo[i] = out.rows[k].alert_key
                                /\ Catalogo[j] = out.rows[l].alert_key

-----------------------------------------------------------------------------
(* analisar_pacientes_multiplos_atos_prof and the order of a str set.      *)

MULTIPLOS_ATOS_PROF_PACIENTE_LIMITE == 2

\* The string-hash seeds of the model: the interpreter draws one per process.
HashSeeds == {0, 1}

\* Iteration order of a Python set of strings.  It follows the hashes of the
\* strings, which change with the seed of the process: one seed is taken to
\* iterate in ascending, the other in descending order of the codes.
SetIterationOrder(S, seed) ==
    IF seed = 0 THEN AscSeq(S)
    ELSE [p \in 1..Cardinality(S) |-> AscSeq(S)[(Cardinality(S) + 1) - p]]

\* DataFrame.head(15)
Head15(t) == SubSeq(t, 1, IF Len(t) < 15 THEN Len(t) ELSE 15)

analisar_pacientes_multiplos_atos_prof(lines, c, seed) ==
    IF lines = <<>> \/ ~({"IS_OPME", "PACCNS", "NOME", "SP_ATOPROF", "DESC_ATO_PROF"} \subseteq c)
    THEN EmptyResult
    ELSE
    LET df_atos_prof == SelectSeq(lines, LAMBDA r : ~r.IS_OPME /\ r.SP_ATOPROF # NULL)
        ids == AscSeq(GroupKeys(df_atos_prof, "PACCNS"))
        nomes(p) == AscSeq(GroupKeys(SelectSeq(df_atos_prof, LAMBDA r : r.PACCNS = p), "NOME"))
        chaves == Concat([k \in DOMAIN ids |->
                     [n \in DOMAIN nomes(ids[k]) |-> <<ids[k], nomes(ids[k])[n]>>]])
        grupo(k) == SelectSeq(df_atos_prof, LAMBDA r : r.PACCNS = k[1] /\ r.NOME = k[2])
        pac_agg ==
            [g \in DOMAIN chaves |->
                [PACCNS |-> chaves[g][1],
                 NOME |-> chaves[g][2],
                 NUM_ATOS_DISTINTOS |->
                     Cardinality({grupo(chaves[g])[i].SP_ATOPROF : i \in DOMAIN grupo(chaves[g])}),
                 \* ', '.join(set(x.astype(str))): the distinct descriptions
                 \* (a null one as the text 'nan') in set iteration order
                 LISTA_ATOS_PROF_DESC |->
                     SetIterationOrder({grupo(chaves[g])[i].DESC_ATO_PROF :
                                           i \in DOMAIN grupo(chaves[g])}, seed)]]
        multiplos_atos ==
            SelectSeq(pac_agg,
                      LAMBDA r : r.NUM_ATOS_DISTINTOS > MULTIPLOS_ATOS_PROF_PACIENTE_LIMITE)
    IN  IF df_atos_prof = <<>> \/ multiplos_atos = <<>> THEN EmptyResult
        ELSE Table(Head15(StableSortAsc(multiplos_atos,
                 [i \in DOMAIN multiplos_atos |-> <<0 - multiplos_atos[i].NUM_ATOS_DISTINTOS>>])))

\* Bounds of the determinism runs: lines of the view, runs of the detector.
MaxAtosLines == 3
MaxAtosRuns == 2

\* Lines of patient 1: professional acts 1..3 described as 1 or 2, a device
\* line and a line without an act code.
AtosLine ==
    [PACCNS : {1}, NOME : {1}, IS_OPME : {FALSE}, SP_ATOPROF : {1, 2, 3}, DESC_ATO_PROF : {1, 2}]
    \cup {[PACCNS |-> 1, NOME |-> 1, IS_OPME |-> TRUE, SP_ATOPROF |-> 3, DESC_ATO_PROF |-> 2],
          [PACCNS |-> 1, NOME |-> 1, IS_OPME |-> FALSE, SP_ATOPROF |-> NULL, DESC_ATO_PROF |-> 2]}

InitAtos ==
    /\ pc = "ready"
    /\ df \in SeqsUpTo(AtosLine, MaxAtosLines)
    /\ aih = <<>>
    /\ forn = <<>>
    /\ cols = DfCols
    /\ out = EmptyResult
    /\ uploaded = <<>>
    /\ session_state = <<>>
    /\ chamadas = <<>>
    /\ hashseed \in HashSeeds

\* An alert run calls the detector on the filtered line view.
run_pacientes_multiplos_atos_prof ==
    /\ Len(chamadas) < MaxAtosRuns
    /\ out' = analisar_pacientes_multiplos_atos_prof(df, cols, hashseed)
    /\ chamadas' = Append(chamadas, [alert_key |-> "pacientes_multiplos_atos_profissionais",
                                     result |-> out'])
    /\ pc' = "done"
    /\ UNCHANGED <<df, aih, forn, cols, hashseed, session_state, uploaded>>

\* The server process is started again and the same files are loaded: the
\* views are the same, the interpreter has a new hash seed.
restart_process ==
    /\ pc = "done"
    /\ hashseed' \in HashSeeds \ {hashseed}
    /\ pc' = "ready"
    /\ UNCHANGED <<df, aih, forn, cols, out, chamadas, session_state, uploaded>>

NextAtos == run_pacientes_multiplos_atos_prof \/ restart_process

SpecAtos == InitAtos /\ [][NextAtos]_vars

\* C14: two runs of a detector on identical views return identical tables:
\* the same rows in the same order with the same value in every cell, the
\* joined list cells included.
C14_RunsOnSameViewsAgree ==
    \A i, j \in DOMAIN chamadas : chamadas[i].result = chamadas[j].result

-----------------------------------------------------------------------------
(* The upload branch and the start_analysis gate of the script.            *)

\* st.session_state after inicializar_session_state (empty frames are
\* written 0, a loaded dataset by the number of its file).
SessionDefaults ==
    [dados_file_name |-> NULL,
     df_original |-> 0,
     start_analysis |-> FALSE,
     log_qualidade |-> <<>>]

\* Bound: number of load_and_process_data calls in a session.
MaxLoads == 4

\* What the upload widgets can hold: nothing (one of the two files missing),
\* or a pair of files under a name, whose claim-line file has every
\* required column and usable rows ("ok") or lacks a required column
\* ("missing_column").
Uploads ==
    {<<>>} \cup {<<[name |-> n, kind |-> k]>> : n \in {1, 2},
                                                  k \in {"ok", "missing_column"}}

\* load_and_process_data on file f: the claim-line dataset it returns (0 for
\* the empty frames) and the quality log of the session afterwards.  A
\* missing required column raises ValueError inside the try; the handler
\* appends the error to the log and returns three empty frames.
LoadResult(f, log) ==
    IF f.kind = "missing_column"
    THEN [df_loaded |-> 0, log_qualidade |-> Append(log, "Erro")]
    ELSE [df_loaded |-> f.name, log_qualidade |-> <<"carregado">>]

\* The gate with the start_analysis test left out.
GateStopsOnEmptyOnly(ss) == ss.df_original = 0

\* if not st.session_state.start_analysis or st.session_state.df_original.empty: st.stop()
GateStops(ss) == ~ss.start_analysis \/ ss.df_original = 0

InitSession ==
    /\ pc = "ready"
    /\ df = <<>>
    /\ aih = <<>>
    /\ forn = <<>>
    /\ cols = {}
    /\ out = EmptyResult
    /\ chamadas = <<>>
    /\ hashseed = 0
    /\ session_state = SessionDefaults
    /\ uploaded = <<>>

\* One run of the script, started by the widgets taking the value u: the
\* upload branch, then the gate, then (if not stopped) the filters and tabs
\* on the datasets held in the session.
script_run ==
    \E u \in Uploads :
        LET recarrega == /\ u # <<>>
                         /\ \/ session_state.dados_file_name # u[1].name
                            \/ ~session_state.start_analysis
            r == LoadResult(u[1], session_state.log_qualidade)
            ss == IF ~recarrega THEN session_state
                  ELSE [dados_file_name |-> u[1].name,
                        df_original |-> IF r.df_loaded # 0 THEN r.df_loaded
                                        ELSE session_state.df_original,
                        start_analysis |-> r.df_loaded # 0,
                        log_qualidade |-> r.log_qualidade]
        IN  /\ recarrega => Len(chamadas) < MaxLoads
            /\ uploaded' = u
            /\ session_state' = ss
            /\ chamadas' = IF recarrega
                           THEN Append(chamadas, [file |-> u[1], df_loaded |-> r.df_loaded])
                           ELSE chamadas
            /\ IF GateStops(ss)
               THEN pc' = "stopped" /\ out' = EmptyResult
               ELSE pc' = "dashboard" /\ out' = Table(<<[dataset |-> ss.df_original]>>)
            /\ UNCHANGED <<df, aih, forn, cols, hashseed>>

NextSession == script_run

SpecSession == InitSession /\ [][NextSession]_vars

\* The last load call of the session failed on a missing required column.
LastLoadMissingColumn ==
    chamadas # <<>> /\ chamadas[Len(chamadas)].file.kind = "missing_column"

-----------------------------------------------------------------------------
(* The currency columns of the normalizer (VAL_SH, VAL_SP, SP_VALATO).     *)
(* The file is read with dtype=str, so a cell reaches the conversion as    *)
(* the text of the file; a text is a sequence of one-character strings and *)
(* a number is a record num/den standing for num/den.  An empty cell of    *)
(* the file is read as missing, so the empty text stands for it.           *)

Digits == {"1", "2"}

\* Bound: number of characters of a currency cell.
MaxCellLen == 7

DigitVal(ch) == IF ch = "1" THEN 1 ELSE 2

\* The integer written by a text of digits (0 for no digit).
RECURSIVE IntOf(_)
IntOf(s) ==
    IF s = <<>> THEN 0
    ELSE 10 * IntOf(SubSeq(s, 1, Len(s) - 1)) + DigitVal(s[Len(s)])

RECURSIVE Pow10(_)
Pow10(n) == IF n = 0 THEN 1 ELSE 10 * Pow10(n - 1)

\* s without the characters ch.
RECURSIVE Without(_, _)
Without(s, ch) ==
    IF s = <<>> THEN <<>>
    ELSE IF Head(s) = ch THEN Without(Tail(s), ch)
    ELSE <<Head(s)>> \o Without(Tail(s), ch)

Positions(s, ch) == {i \in DOMAIN s : s[i] = ch}

IsDigits(s) == s # <<>> /\ \A i \in DOMAIN s : s[i] \in Digits

\* .str.replace(',', '.', regex=False)
ReplaceCommaByDot(s) == [i \in DOMAIN s |-> IF s[i] = "," THEN "." ELSE s[i]]

\* What an unparsable text is coerced to.
NaN == [num |-> 0, den |-> 0]

\* pd.to_numeric(errors='coerce') on a text of digits and points: a decimal
\* literal has at most one point and at least one digit; anything else is
\* coerced to NaN.
to_numeric(s) ==
    IF /\ \A i \in DOMAIN s : s[i] \in Digits \cup {"."}
       /\ Cardinality(Positions(s, ".")) <= 1
       /\ Without(s, ".") # <<>>
    THEN LET p == Positions(s, ".")
             decimais == IF p = {} THEN 0 ELSE Len(s) - (CHOOSE i \in p : TRUE)
         IN  [num |-> IntOf(Without(s, ".")), den |-> Pow10(decimais)]
    ELSE NaN

Zero == [num |-> 0, den |-> 1]

\* df[col].fillna('0').astype(str).str.strip().str.replace(',', '.') and
\* pd.to_numeric(..., errors='coerce').fillna(0) on one cell (the texts
\* drawn here carry no blank, so strip leaves them as they are).
ConverterMoeda(cell) ==
    IF cell = <<>> THEN Zero
    ELSE LET v == to_numeric(ReplaceCommaByDot(cell))
         IN  IF v = NaN THEN Zero ELSE v

\* Every currency cell the conversion is tried on.
CurrencyCells == UNION {[1..n -> Digits \cup {".", ","}] : n \in 0..MaxCellLen}

InitMoeda ==
    /\ pc = "raw"
    /\ df \in {<<[VAL_SH |-> cell]>> : cell \in CurrencyCells}
    /\ aih = <<>>
    /\ forn = <<>>
    /\ cols = {"VAL_SH"}
    /\ out = EmptyResult
    /\ chamadas = <<>>
    /\ hashseed = 0
    /\ session_state = <<>>
    /\ uploaded = <<>>

\* The conversion loop of load_and_process_data over the currency columns.
converter_colunas_monetarias ==
    /\ pc = "raw"
    /\ out' = Table([i \in DOMAIN df |-> [VAL_SH |-> ConverterMoeda(df[i].VAL_SH)]])
    /\ pc' = "loaded"
    /\ UNCHANGED <<df, aih, forn, cols, chamadas, hashseed, session_state, uploaded>>

NextMoeda == converter_colunas_monetarias

SpecMoeda == InitMoeda /\ [][NextMoeda]_vars

\* A text is an amount in Brazilian notation: digits, alone or in groups of
\* three separated by points after a first group of one to three, and
\* optionally a comma followed by the decimals.
ParteInteiraBr(s) ==
    \/ IsDigits(s)
    \/ /\ Positions(s, ".") # {}
       /\ \A i \in DOMAIN s : s[i] \in Digits \cup {"."}
       /\ LET p == Positions(s, ".")
              first == CHOOSE i \in p : \A j \in p : i <= j
          IN  /\ first \in 2..4
              /\ \A i \in p : (i - first) % 4 = 0
              /\ \A i \in DOMAIN s : (i > first /\ (i - first) % 4 = 0) => i \in p
              /\ (Len(s) - first) % 4 = 3

BrAmount(s) ==
    LET c == Positions(s, ",")
    IN  \/ c = {} /\ ParteInteiraBr(s)
        \/ /\ Cardinality(c) = 1
           /\ LET i == CHOOSE j \in c : TRUE
              IN  /\ ParteInteiraBr(SubSeq(s, 1, i - 1))
                  /\ IsDigits(SubSeq(s, i + 1, Len(s)))

\* The number a Brazilian amount writes: 1.234,56 is 1234.56.
BrValue(s) ==
    LET c == Positions(s, ",")
        decimais == IF c = {} THEN 0 ELSE Len(s) - (CHOOSE j \in c : TRUE)
    IN  [num |-> IntOf(Without(Without(s, "."), ",")), den |-> Pow10(decimais)]

\* Equality of two such numbers (the denominators are powers of ten).
SameNumber(a, b) ==
    IF a.den <= b.den THEN a.num * (b.den \div a.den) = b.num
    ELSE b.num * (a.den \div b.den) = a.num

\* C16: the conversion keeps the row, gives every cell written as a
\* Brazilian amount its numeric value, and gives 0 only to a missing cell or
\* to a text that is not an amount.
C16_BrazilianAmountsParsed ==
    pc = "loaded" =>
        /\ Len(out.rows) = Len(df)
        /\ \A i \in DOMAIN df :
              LET cell == df[i].VAL_SH
              IN  /\ BrAmount(cell) => SameNumber(out.rows[i].VAL_SH, BrValue(cell))
                  /\ out.rows[i].VAL_SH = Zero => (cell = <<>> \/ ~BrAmount(cell))

-----------------------------------------------------------------------------
(* analisar_medicos_atos_alto_custo: physicians with many high-cost acts.  *)

\* The physician texts that stand for "no physician" ('NÃO SE APLICA',
\* 'DESCONHECIDO_OPME'), as codes outside the physician numbers.
NAO_SE_APLICA == 100
DESCONHECIDO_OPME == 101

\* LIMITE_FREQ_ATOS_ALTO_CUSTO_PERCENTIL = 0.90, in tenths.
LIMITE_FREQ_ATOS_ALTO_CUSTO_PERCENTIL_X10 == 9

\* atos_alto_custo_desc: the codes of the three listed descriptions.
atos_alto_custo_desc == {1, 2, 3}

ColsAtosAltoCusto == {"IS_OPME", "DESC_ATO_PROF", "MEDICO", "SP_ATOPROF", "SP_VALATO"}

\* Series.quantile(k/10) of the non-empty integer column v, times 10: linear
\* interpolation between the order statistics around position (n-1)*k/10.
QuantileX10(v, k) ==
    LET n == Len(v)
        x == StableSortAsc(v, [i \in DOMAIN v |-> <<v[i]>>])
        h == (n - 1) * k
        lo == (h \div 10) + 1
        hi == IF lo < n THEN lo + 1 ELSE n
    IN  10 * x[lo] + (h % 10) * (x[hi] - x[lo])

\* The row filter of the detector.
AtoAltoCusto(r) ==
    /\ ~r.IS_OPME
    /\ r.DESC_ATO_PROF \in atos_alto_custo_desc
    /\ r.MEDICO # NULL
    /\ r.MEDICO # NAO_SE_APLICA
    /\ r.MEDICO # DESCONHECIDO_OPME

\* groupby('MEDICO').agg(count of SP_ATOPROF, sum of SP_VALATO), one row per
\* physician in ascending order.
MedicosContagem(t) ==
    LET ms == AscSeq(GroupKeys(t, "MEDICO"))
    IN  [g \in DOMAIN ms |->
            LET rs == SelectSeq(t, LAMBDA r : r.MEDICO = ms[g])
            IN  [MEDICO |-> ms[g],
                 QTD_ATOS_ALTO_CUSTO |-> Len(SelectSeq(rs, LAMBDA r : r.SP_ATOPROF # NULL)),
                 VALOR_TOTAL_ATOS_ALTO_CUSTO |-> SumSeq(Column(rs, "SP_VALATO"))]]

\* qtd > limite_freq, the limit given in tenths.
AcimaDoLimite(qtd, limite_x10) == 10 * qtd > limite_x10

\* qtd >= limite_freq, the limit given in tenths.
NoLimiteOuAcima(qtd, limite_x10) == 10 * qtd >= limite_x10

analisar_medicos_atos_alto_custo(lines, c) ==
    IF lines = <<>> \/ ~(ColsAtosAltoCusto \subseteq c) THEN EmptyResult
    ELSE LET df_altocusto == SelectSeq(lines, AtoAltoCusto)
         IN  IF df_altocusto = <<>> THEN EmptyResult
             ELSE LET contagem == MedicosContagem(df_altocusto)
                      medicos_contagem ==
                          StableSortAsc(contagem,
                              [i \in DOMAIN contagem |-> <<0 - contagem[i].QTD_ATOS_ALTO_CUSTO>>])
                      limite_freq_x10 ==
                          QuantileX10(Column(medicos_contagem, "QTD_ATOS_ALTO_CUSTO"),
                                      LIMITE_FREQ_ATOS_ALTO_CUSTO_PERCENTIL_X10)
                  IN  Table(Head15(SelectSeq(medicos_contagem,
                          LAMBDA r : NoLimiteOuAcima(r.QTD_ATOS_ALTO_CUSTO, limite_freq_x10))))

\* Bounds: lines of a freely built view, physicians of a counted view.
MaxAltoLines == 3
MaxAltoMedicos == 16

\* The lines a freely built view is made of.
AltoLines ==
    <<[IS_OPME |-> FALSE, DESC_ATO_PROF |-> 1, MEDICO |-> 1, SP_ATOPROF |-> 1, SP_VALATO |-> 1],
      [IS_OPME |-> FALSE, DESC_ATO_PROF |-> 2, MEDICO |-> 1, SP_ATOPROF |-> 2, SP_VALATO |-> 2],
      [IS_OPME |-> FALSE, DESC_ATO_PROF |-> 3, MEDICO |-> 2, SP_ATOPROF |-> 3, SP_VALATO |-> 1],
      [IS_OPME |-> FALSE, DESC_ATO_PROF |-> 1, MEDICO |-> 3, SP_ATOPROF |-> 1, SP_VALATO |-> 1],
      [IS_OPME |-> FALSE, DESC_ATO_PROF |-> 4, MEDICO |-> 2, SP_ATOPROF |-> 4, SP_VALATO |-> 1],
      [IS_OPME |-> TRUE, DESC_ATO_PROF |-> 1, MEDICO |-> 2, SP_ATOPROF |-> 1, SP_VALATO |-> 2],
      [IS_OPME |-> FALSE, DESC_ATO_PROF |-> 1, MEDICO |-> NULL, SP_ATOPROF |-> 1, SP_VALATO |-> 1],
      [IS_OPME |-> FALSE, DESC_ATO_PROF |-> 1, MEDICO |-> NAO_SE_APLICA, SP_ATOPROF |-> 1, SP_VALATO |-> 1],
      [IS_OPME |-> FALSE, DESC_ATO_PROF |-> 1, MEDICO |-> DESCONHECIDO_OPME, SP_ATOPROF |-> 1, SP_VALATO |-> 1],
      [IS_OPME |-> FALSE, DESC_ATO_PROF |-> NULL, MEDICO |-> 3, SP_ATOPROF |-> NULL, SP_VALATO |-> 0]>>

AltoFreeViews ==
    UNION {{[i \in 1..n |-> AltoLines[s[i]]] : s \in [1..n -> DOMAIN AltoLines]} :
              n \in 0..MaxAltoLines}

\* A counted view: n physicians with one listed act each, the first k of
\* them with a second one.
AltoCountView(n, k) ==
    [i \in 1..(n + k) |->
        [IS_OPME |-> FALSE, DESC_ATO_PROF |-> 1,
         MEDICO |-> IF i <= n THEN i ELSE i - n,
         SP_ATOPROF |-> 1, SP_VALATO |-> 1]]

AltoCountViews ==
    UNION {{AltoCountView(n, k) : k \in 0..n} : n \in 1..MaxAltoMedicos}

InitAlto ==
    /\ pc = "ready"
    /\ df \in AltoFreeViews \cup AltoCountViews
    /\ aih = <<>>
    /\ forn = <<>>
    /\ cols \in {ColsAtosAltoCusto, ColsAtosAltoCusto \ {"SP_VALATO"}}
    /\ out = EmptyResult
    /\ chamadas = <<>>
    /\ hashseed = 0
    /\ session_state = <<>>
    /\ uploaded = <<>>

run_medicos_atos_alto_custo ==
    /\ pc = "ready"
    /\ out' = analisar_medicos_atos_alto_custo(df, cols)
    /\ pc' = "done"
    /\ UNCHANGED <<df, aih, forn, cols, chamadas, hashseed, session_state, uploaded>>

NextAlto == run_medicos_atos_alto_custo

SpecAlto == InitAlto /\ [][NextAlto]_vars

\* The listed high-cost non-device acts (lines carrying an act code) of
\* valid physician m in the view.
AtosDoMedico(m) ==
    Cardinality({i \in DOMAIN df : AtoAltoCusto(df[i]) /\ df[i].MEDICO = m /\ df[i].SP_ATOPROF # NULL})

MedicosValidos == {df[i].MEDICO : i \in {j \in DOMAIN df : AtoAltoCusto(df[j])}}

\* C17: on a view with the needed columns the detector returns exactly the
\* valid physicians whose count of listed high-cost non-device acts is at or
\* above the 90th percentile of the per-physician counts, however many they
\* are.
C17_OnlyPercentileCutoff ==
    (pc = "done" /\ ColsAtosAltoCusto \subseteq cols /\ MedicosValidos # {}) =>
        LET ms == AscSeq(MedicosValidos)
            p90x10 == QuantileX10([i \in DOMAIN ms |-> AtosDoMedico(ms[i])],
                                  LIMITE_FREQ_ATOS_ALTO_CUSTO_PERCENTIL_X10)
        IN  {out.rows[i].MEDICO : i \in DOMAIN out.rows} =
                {m \in MedicosValidos : 10 * AtosDoMedico(m) >= p90x10}

\* The largest count of listed high-cost acts among the valid physicians.
MaiorContagem == CHOOSE q \in {AtosDoMedico(m) : m \in MedicosValidos} :
                     \A m \in MedicosValidos : AtosDoMedico(m) <= q

\* C27: when the view has a non-device line with a listed high-cost act and
\* a valid physician, the result is not empty: the physicians with the
\* largest count are at or above the 90th percentile and lead the result,
\* and a single qualifying physician is returned.
C27_NonEmptyWhenSomeoneQualifies ==
    (pc = "done" /\ ColsAtosAltoCusto \subseteq cols /\ MedicosValidos # {}) =>
        LET ms == AscSeq(MedicosValidos)
            p90x10 == QuantileX10([i \in DOMAIN ms |-> AtosDoMedico(ms[i])],
                                  LIMITE_FREQ_ATOS_ALTO_CUSTO_PERCENTIL_X10)
            retornados == {out.rows[i].MEDICO : i \in DOMAIN out.rows}
        IN  /\ out.rows # <<>>
            /\ out.rows[1].QTD_ATOS_ALTO_CUSTO = MaiorContagem
            /\ 10 * MaiorContagem >= p90x10
            /\ Cardinality(MedicosValidos) <= 15 =>
                   \A m \in MedicosValidos : AtosDoMedico(m) = MaiorContagem => m \in retornados
            /\ Cardinality(MedicosValidos) = 1 => retornados = MedicosValidos

\* One physician qualifies, with one listed act, and is returned.
C27_Witness ==
    /\ pc = "done"
    /\ Cardinality(MedicosValidos) = 1
    /\ Len(out.rows) = 1
    /\ out.rows[1].MEDICO \in MedicosValidos
    /\ out.rows[1].QTD_ATOS_ALTO_CUSTO = 1

-----------------------------------------------------------------------------
(* analisar_opme_sem_proc_correspondente: devices billed on a claim whose  *)
(* principal procedure does not call for them.  Descriptions are sequences *)
(* of characters; an act code is the number its digits write, so that code *)
(* 7021 is the text '07021' and starts with the prefix '0702'.             *)

\* CODIGO_OPME_PREFIX = '0702'
CODIGO_OPME_PREFIX == 702

\* str(row['SP_ATOPROF']).startswith(prefix) for the five-digit act codes.
StartsWith(code, prefix) == code # NULL /\ code \div 10 = prefix

\* opme_proc_map: the keywords mapped to each device prefix.
opme_proc_map ==
    [p \in {CODIGO_OPME_PREFIX} |->
        {<<"A","N","G","I","O","P","L","A","S","T","I","A">>,
         <<"S","T","E","N","T">>,
         <<"C","A","T","E","T","E","R","I","S","M","O">>,
         <<"R","E","V","A","S","C","U","L","A","R","I","Z","A","C","A","O">>,
         <<"I","M","P","L","A","N","T","E">>,
         <<"E","N","D","O","P","R","O","T","E","S">>,
         <<"A","B","L","A","Ç","Ã","O">>,
         <<"M","A","R","C","A","P","A","S","S","O">>}]

\* str.upper on the letters the descriptions below are written with.
UpperChar(ch) ==
    IF ch = "s" THEN "S" ELSE IF ch = "t" THEN "T" ELSE IF ch = "e" THEN "E"
    ELSE IF ch = "n" THEN "N" ELSE ch

Upper(s) == [i \in DOMAIN s |-> UpperChar(s[i])]

\* palavra in texto: substring test.
Contains(texto, palavra) ==
    \E k \in 1..(Len(texto) - Len(palavra) + 1) :
        SubSeq(texto, k, k + Len(palavra) - 1) = palavra

ColsOpmeSemProc == {"IS_OPME", "SP_ATOPROF", "SP_NAIH", "DESC_PROC_REAL"}
ColsResOpmeSemProc == {"SP_NAIH", "NOME", "MEDICO", "SP_ATOPROF", "DESC_ATO_PROF", "SP_VALATO"}

\* A description cell is a one-element sequence holding the text, or the
\* empty sequence for a missing cell.
SemDescricao == <<>>

\* procedimentos_por_aih.get(aih, []): the upper-cased descriptions of the
\* lines of claim aih (a missing claim number is in no group).
ProcedimentosDaAih(lines, n) ==
    IF n = NULL THEN {}
    ELSE {Upper(lines[i].DESC_PROC_REAL[1]) :
             i \in {j \in DOMAIN lines : lines[j].SP_NAIH = n /\ lines[j].DESC_PROC_REAL # SemDescricao}}

\* checar_procedimento_compativel(row)
checar_procedimento_compativel(lines, row) ==
    LET lista_procs_aih == ProcedimentosDaAih(lines, row.SP_NAIH)
        mapeados == {p \in DOMAIN opme_proc_map : StartsWith(row.SP_ATOPROF, p)}
    IN  IF lista_procs_aih = {} THEN FALSE
        ELSE IF mapeados # {}
        THEN LET p == CHOOSE q \in mapeados : TRUE
             IN  \E d \in lista_procs_aih : \E w \in opme_proc_map[p] : Contains(d, Upper(w))
        ELSE TRUE

analisar_opme_sem_proc_correspondente(lines, c) ==
    IF lines = <<>> \/ ~(ColsOpmeSemProc \subseteq c) THEN EmptyResult
    ELSE LET df_opme_analise == SelectSeq(lines, LAMBDA r : r.IS_OPME)
         IN  IF df_opme_analise = <<>> THEN EmptyResult
             ELSE LET mismatched ==
                          SelectSeq(df_opme_analise,
                                    LAMBDA r : ~checar_procedimento_compativel(lines, r))
                  IN  IF mismatched = <<>> THEN EmptyResult
                      ELSE IF ~(ColsResOpmeSemProc \subseteq c) THEN Raised
                      ELSE Table([i \in DOMAIN mismatched |->
                               [SP_NAIH |-> mismatched[i].SP_NAIH,
                                SP_ATOPROF |-> mismatched[i].SP_ATOPROF,
                                SP_VALATO |-> mismatched[i].SP_VALATO]])

\* Bound: lines of a view.
MaxSemProcLines == 2

BIOPSIA == <<"B","I","O","P","S","I","A">>
REIMPLANTE == <<"R","E","I","M","P","L","A","N","T","E">>
ENDOPROTESE == <<"E","N","D","O","P","R","O","T","E","S","E">>
stent == <<"s","t","e","n","t">>

\* The lines a view is made of: device lines with the mapped prefix (7021),
\* device lines with another code (4011) or none, and other lines (3011), on
\* claims 1 and 2 or without claim number.
SemProcLines ==
    <<[SP_NAIH |-> 1, IS_OPME |-> TRUE, SP_ATOPROF |-> 7021, DESC_PROC_REAL |-> SemDescricao, SP_VALATO |-> 1],
      [SP_NAIH |-> 1, IS_OPME |-> TRUE, SP_ATOPROF |-> 7021, DESC_PROC_REAL |-> <<BIOPSIA>>, SP_VALATO |-> 2],
      [SP_NAIH |-> 1, IS_OPME |-> TRUE, SP_ATOPROF |-> 7021, DESC_PROC_REAL |-> <<REIMPLANTE>>, SP_VALATO |-> 3],
      [SP_NAIH |-> 1, IS_OPME |-> TRUE, SP_ATOPROF |-> 7021, DESC_PROC_REAL |-> <<stent>>, SP_VALATO |-> 4],
      [SP_NAIH |-> 1, IS_OPME |-> TRUE, SP_ATOPROF |-> 4011, DESC_PROC_REAL |-> SemDescricao, SP_VALATO |-> 5],
      [SP_NAIH |-> 1, IS_OPME |-> TRUE, SP_ATOPROF |-> 4011, DESC_PROC_REAL |-> <<BIOPSIA>>, SP_VALATO |-> 6],
      [SP_NAIH |-> 1, IS_OPME |-> TRUE, SP_ATOPROF |-> NULL, DESC_PROC_REAL |-> SemDescricao, SP_VALATO |-> 7],
      [SP_NAIH |-> 1, IS_OPME |-> FALSE, SP_ATOPROF |-> 3011, DESC_PROC_REAL |-> SemDescricao, SP_VALATO |-> 1],
      [SP_NAIH |-> 1, IS_OPME |-> FALSE, SP_ATOPROF |-> 3011, DESC_PROC_REAL |-> <<BIOPSIA>>, SP_VALATO |-> 1],
      [SP_NAIH |-> 1, IS_OPME |-> FALSE, SP_ATOPROF |-> 3011, DESC_PROC_REAL |-> <<ENDOPROTESE>>, SP_VALATO |-> 1],
      [SP_NAIH |-> 2, IS_OPME |-> FALSE, SP_ATOPROF |-> 3011, DESC_PROC_REAL |-> <<ENDOPROTESE>>, SP_VALATO |-> 1],
      [SP_NAIH |-> 2, IS_OPME |-> TRUE, SP_ATOPROF |-> 7021, DESC_PROC_REAL |-> SemDescricao, SP_VALATO |-> 8],
      [SP_NAIH |-> 2, IS_OPME |-> TRUE, SP_ATOPROF |-> 4011, DESC_PROC_REAL |-> SemDescricao, SP_VALATO |-> 9],
      [SP_NAIH |-> NULL, IS_OPME |-> TRUE, SP_ATOPROF |-> 7021, DESC_PROC_REAL |-> <<ENDOPROTESE>>, SP_VALATO |-> 10]>>

SemProcViews ==
    UNION {{[i \in 1..n |-> SemProcLines[s[i]]] : s \in [1..n -> DOMAIN SemProcLines]} :
              n \in 0..MaxSemProcLines}

InitSemProc ==
    /\ pc = "ready"
    /\ df \in SemProcViews
    /\ aih = <<>>
    /\ forn = <<>>
    /\ cols \in {ColsOpmeSemProc \cup ColsResOpmeSemProc, ColsOpmeSemProc}
    /\ out = EmptyResult
    /\ chamadas = <<>>
    /\ hashseed = 0
    /\ session_state = <<>>
    /\ uploaded = <<>>

run_opme_sem_proc_correspondente ==
    /\ pc = "ready"
    /\ out' = analisar_opme_sem_proc_correspondente(df, cols)
    /\ pc' = "done"
    /\ UNCHANGED <<df, aih, forn, cols, chamadas, hashseed, session_state, uploaded>>

NextSemProc == run_opme_sem_proc_correspondente

SpecSemProc == InitSemProc /\ [][NextSemProc]_vars

\* The code of device line r starts with a prefix that has keywords.
PrefixoMapeado(r) == \E p \in DOMAIN opme_proc_map : StartsWith(r.SP_ATOPROF, p)

\* Some principal-procedure description on the claim of device line r
\* contains (whatever the case of its letters) a keyword mapped to the
\* prefix of r.
DescricaoComPalavraChave(r) ==
    \E j \in DOMAIN df :
        /\ r.SP_NAIH # NULL
        /\ df[j].SP_NAIH = r.SP_NAIH
        /\ df[j].DESC_PROC_REAL # SemDescricao
        /\ \E p \in DOMAIN opme_proc_map :
              /\ StartsWith(r.SP_ATOPROF, p)
              /\ \E w \in opme_proc_map[p] : Contains(Upper(df[j].DESC_PROC_REAL[1]), w)

\* The device lines the statement has flagged, in view order.
EsperadosSemProc ==
    LET flagged == SelectSeq(df, LAMBDA r : r.IS_OPME /\ PrefixoMapeado(r)
                                            /\ ~DescricaoComPalavraChave(r))
    IN  [i \in DOMAIN flagged |->
            [SP_NAIH |-> flagged[i].SP_NAIH, SP_ATOPROF |-> flagged[i].SP_ATOPROF,
             SP_VALATO |-> flagged[i].SP_VALATO]]

-----------------------------------------------------------------------------
(* What a detector call leaves in the frames it was given.  A detector     *)
(* writes columns only into a frame it names locally; which frame object   *)
(* that name refers to decides whether the caller's view changes.  "arg"   *)
(* is the frame object passed in, "novo" an object created during the call. *)

\* sort_values as if it sorted the frame it is called on.
SortValuesInPlace(obj) == obj

\* DataFrame.sort_values(by) with the default inplace=False: a new frame.
FrameSortValues(obj) == "novo"

\* df[boolean mask]: a new frame holding the selected rows.
FrameMask(obj) == "novo"

\* DataFrame.copy(): a new frame.
FrameCopy(obj) == "novo"

\* groupby(...).agg(...).reset_index(): a new frame.
FrameAgg(obj) == "novo"

\* The caller's frame after the call: the local frame if the writes went to
\* the object passed in, the frame as it was otherwise.
ArgumentoDepois(obj, arg, local) == IF obj = "arg" THEN local ELSE arg

\* df_pac_datas of analisar_reinternacoes after its two column assignments.
df_pac_datas(view) ==
    LET s == StableSortAsc(view,
                 [i \in DOMAIN view |-> NaLast(view[i].PACCNS) \o NaLast(view[i].SP_DTINTER)])
        before(p) == {q \in 1..(p - 1) : s[q].PACCNS = s[p].PACCNS}
        anterior(p) ==
            IF s[p].PACCNS = NULL \/ before(p) = {} THEN NULL
            ELSE s[CHOOSE q \in before(p) : \A r \in before(p) : r <= q].SP_DTSAIDA
    IN  [p \in DOMAIN s |->
            s[p] @@ [DATA_SAIDA_ANTERIOR |-> anterior(p),
                     DIAS_ENTRE_INTERNACOES |->
                         IF s[p].SP_DTINTER = NULL \/ anterior(p) = NULL THEN NULL
                         ELSE s[p].SP_DTINTER - anterior(p)]]

\* The claim view after analisar_reinternacoes(view).
reinternacoes_depois(view, c) ==
    IF view = <<>> \/ ~({"PACCNS", "SP_DTINTER", "SP_DTSAIDA"} \subseteq c) THEN view
    ELSE ArgumentoDepois(FrameSortValues("arg"), view, df_pac_datas(view))

\* df_com_dia_semana of analisar_procedimentos_dias_nao_uteis after the
\* DIA_SEMANA assignment.
df_com_dia_semana(lines) ==
    LET t == SelectSeq(lines, LAMBDA r : r.SP_DTINTER # NULL)
    IN  [i \in DOMAIN t |-> t[i] @@ [DIA_SEMANA |-> DiaSemana(t[i].SP_DTINTER)]]

\* The line view after analisar_procedimentos_dias_nao_uteis(lines).
dias_nao_uteis_depois(lines, c) ==
    IF lines = <<>> \/ ~({"SP_DTINTER", "DESC_PROC_REAL", "SP_NAIH"} \subseteq c) THEN lines
    ELSE ArgumentoDepois(FrameCopy(FrameMask("arg")), lines, df_com_dia_semana(lines))

\* df_opme_analise of analisar_opme_sem_proc_correspondente after the
\* PROC_COMPATIVEL_ENCONTRADO assignment.
df_opme_analise(lines) ==
    LET t == SelectSeq(lines, LAMBDA r : r.IS_OPME)
    IN  [i \in DOMAIN t |->
            t[i] @@ [PROC_COMPATIVEL_ENCONTRADO |-> checar_procedimento_compativel(lines, t[i])]]

\* The line view after analisar_opme_sem_proc_correspondente(lines).
opme_sem_proc_depois(lines, c) ==
    IF lines = <<>> \/ ~(ColsOpmeSemProc \subseteq c) THEN lines
    ELSE IF SelectSeq(lines, LAMBDA r : r.IS_OPME) = <<>> THEN lines
    ELSE ArgumentoDepois(FrameCopy(FrameMask("arg")), lines, df_opme_analise(lines))

\* fornecedor_share of analisar_fornecedores_opme_concentrados after the
\* PERCENTUAL_VALOR assignment.
fornecedor_share(lines) ==
    LET df_opme == SelectSeq(lines, LAMBDA r : r.IS_OPME)
        total_opme_valor == SumSeq(Column(df_opme, "SP_VALATO"))
        keys == AscSeq(GroupKeys(df_opme, "SP_PJ_DOC"))
        valor(k) == SumSeq(Column(SelectSeq(df_opme, LAMBDA r : r.SP_PJ_DOC = k), "SP_VALATO"))
    IN  [p \in DOMAIN keys |->
            [SP_PJ_DOC |-> keys[p], VALOR_TOTAL_OPME |-> valor(keys[p]),
             PERCENTUAL_VALOR |-> PercentRound2(valor(keys[p]), total_opme_valor)]]

\* The line view after analisar_fornecedores_opme_concentrados(lines, registry);
\* the registry is only read (column selection, drop_duplicates, merge).
fornecedores_depois(lines, c) ==
    IF lines = <<>> \/ ~({"IS_OPME", "SP_VALATO", "SP_PJ_DOC", "SP_NAIH"} \subseteq c) THEN lines
    ELSE LET df_opme == SelectSeq(lines, LAMBDA r : r.IS_OPME)
         IN  IF df_opme = <<>> \/ ~(SumSeq(Column(df_opme, "SP_VALATO")) > 0) THEN lines
             ELSE ArgumentoDepois(FrameAgg(FrameMask("arg")), lines, fornecedor_share(lines))

\* The descriptions of the views below, and the view with each description
\* replaced by its number in this list (a missing one by NULL).
Descricoes == <<BIOPSIA, ENDOPROTESE>>

ComCodigos(lines) ==
    [i \in DOMAIN lines |->
        [SP_NAIH |-> lines[i].SP_NAIH, SP_DTINTER |-> lines[i].SP_DTINTER,
         DESC_PROC_REAL |->
             IF lines[i].DESC_PROC_REAL = SemDescricao THEN NULL
             ELSE CHOOSE k \in DOMAIN Descricoes : Descricoes[k] = lines[i].DESC_PROC_REAL[1]]]

\* Bounds: lines of a freely built view, detector calls of a run.
MaxFrameLines == 2
MaxFrameRuns == 3

FrameCols ==
    {"SP_NAIH", "PACCNS", "NOME", "SP_DTINTER", "SP_DTSAIDA", "DESC_PROC_REAL", "IS_OPME",
     "SP_ATOPROF", "SP_VALATO", "SP_PJ_DOC", "MEDICO", "DESC_ATO_PROF"}

FrameLines ==
    <<[SP_NAIH |-> 1, IS_OPME |-> TRUE, SP_ATOPROF |-> 7021, DESC_PROC_REAL |-> <<BIOPSIA>>,
       SP_DTINTER |-> 5, SP_PJ_DOC |-> 1, SP_VALATO |-> 3],
      [SP_NAIH |-> 1, IS_OPME |-> FALSE, SP_ATOPROF |-> 3011, DESC_PROC_REAL |-> <<ENDOPROTESE>>,
       SP_DTINTER |-> 5, SP_PJ_DOC |-> NULL, SP_VALATO |-> 1],
      [SP_NAIH |-> 2, IS_OPME |-> TRUE, SP_ATOPROF |-> 7021, DESC_PROC_REAL |-> SemDescricao,
       SP_DTINTER |-> NULL, SP_PJ_DOC |-> 2, SP_VALATO |-> 1],
      [SP_NAIH |-> 2, IS_OPME |-> FALSE, SP_ATOPROF |-> 3011, DESC_PROC_REAL |-> <<BIOPSIA>>,
       SP_DTINTER |-> 6, SP_PJ_DOC |-> NULL, SP_VALATO |-> 1]>>

\* A view on which the weekend detector has a finding: five claims of one
\* procedure, four admitted on a Saturday and one on a Sunday.
FrameWeekendView ==
    [i \in 1..5 |->
        [SP_NAIH |-> i, IS_OPME |-> FALSE, SP_ATOPROF |-> 3011, DESC_PROC_REAL |-> <<BIOPSIA>>,
         SP_DTINTER |-> IF i < 5 THEN 5 ELSE 6, SP_PJ_DOC |-> NULL, SP_VALATO |-> 1]]

FrameLineViews ==
    {FrameWeekendView} \cup
    UNION {{[i \in 1..n |-> FrameLines[s[i]]] : s \in [1..n -> DOMAIN FrameLines]} :
              n \in 0..MaxFrameLines}

\* Claim views: empty, one claim, and two claims of one patient in an order
\* other than the sorted one, the second admitted 20 days after the first
\* left.
FrameClaimViews ==
    {<<>>,
     <<[SP_NAIH |-> 1, PACCNS |-> 1, SP_DTINTER |-> 10, SP_DTSAIDA |-> 20]>>,
     <<[SP_NAIH |-> 2, PACCNS |-> 1, SP_DTINTER |-> 40, SP_DTSAIDA |-> 45],
       [SP_NAIH |-> 1, PACCNS |-> 1, SP_DTINTER |-> 10, SP_DTSAIDA |-> 20]>>}

InitFrame ==
    /\ pc = "ready"
    /\ df \in FrameLineViews
    /\ aih \in FrameClaimViews
    /\ forn \in {<<>>, <<[CNPJ |-> 1, RAZAO_SOCIAL |-> 11]>>}
    /\ cols = FrameCols
    /\ out = EmptyResult
    /\ chamadas = <<>>
    /\ hashseed = 0
    /\ session_state = <<>>
    /\ uploaded = <<>>

\* One detector call: its result is recorded, and the views are what the
\* call left of them.
Chamada(detector, resultado, df_depois, aih_depois) ==
    /\ Len(chamadas) < MaxFrameRuns
    /\ out' = resultado
    /\ chamadas' = Append(chamadas, [detector |-> detector, resultado |-> resultado])
    /\ df' = df_depois
    /\ aih' = aih_depois
    /\ pc' = "done"
    /\ UNCHANGED <<forn, cols, hashseed, session_state, uploaded>>

chamar_reinternacoes ==
    Chamada("reinternacoes_curto_periodo", analisar_reinternacoes(aih, cols),
            df, reinternacoes_depois(aih, cols))

chamar_procedimentos_dias_nao_uteis ==
    Chamada("procedimentos_dias_nao_uteis",
            analisar_procedimentos_dias_nao_uteis(ComCodigos(df), cols),
            dias_nao_uteis_depois(df, cols), aih)

chamar_opme_sem_proc_correspondente ==
    Chamada("opme_sem_procedimento_principal_correspondente",
            analisar_opme_sem_proc_correspondente(df, cols),
            opme_sem_proc_depois(df, cols), aih)

chamar_fornecedores_opme_concentrados ==
    Chamada("fornecedores_opme_concentrados",
            analisar_fornecedores_opme_concentrados(df, forn, cols),
            fornecedores_depois(df, cols), aih)

NextFrame ==
    \/ chamar_reinternacoes
    \/ chamar_procedimentos_dias_nao_uteis
    \/ chamar_opme_sem_proc_correspondente
    \/ chamar_fornecedores_opme_concentrados

SpecFrame == InitFrame /\ [][NextFrame]_vars

\* Every call of a detector in the run so far returned the same result.
MesmoResultadoEmQualquerOrdem ==
    \A i, j \in DOMAIN chamadas :
        chamadas[i].detector = chamadas[j].detector =>
            chamadas[i].resultado = chamadas[j].resultado

-----------------------------------------------------------------------------
(* analisar_concentracao_medico_fornecedor_opme: physicians whose device   *)
(* spending goes mostly to one payee.                                      *)

LIMITE_CONCENTRACAO_MEDICO_FORNECEDOR_PERC == 70

ColsMedicoFornecedor == {"IS_OPME", "MEDICO", "SP_PJ_DOC", "SP_VALATO", "SP_ATOPROF"}

\* The row filter of the detector.
OpmeDeMedicoComFornecedor(r) ==
    /\ r.IS_OPME
    /\ r.MEDICO # NULL
    /\ r.MEDICO # DESCONHECIDO_OPME
    /\ r.MEDICO # NAO_SE_APLICA
    /\ r.SP_PJ_DOC # NULL

\* groupby(['MEDICO', 'SP_PJ_DOC']).agg(sum of SP_VALATO, count of
\* SP_ATOPROF), merged with the per-physician total and with the share
\* column added: one row per pair, physicians and payees ascending.
MedicoFornecedorShare(t) ==
    LET ms == AscSeq(GroupKeys(t, "MEDICO"))
        doMedico(m) == SelectSeq(t, LAMBDA r : r.MEDICO = m)
        total(m) == SumSeq(Column(doMedico(m), "SP_VALATO"))
        linha(m, p) ==
            LET rs == SelectSeq(doMedico(m), LAMBDA r : r.SP_PJ_DOC = p)
                valor == SumSeq(Column(rs, "SP_VALATO"))
            IN  [MEDICO |-> m, SP_PJ_DOC |-> p,
                 VALOR_TOTAL_OPME |-> valor,
                 QTD_OPME_REGISTROS |-> Len(SelectSeq(rs, LAMBDA r : r.SP_ATOPROF # NULL)),
                 TOTAL_OPME_GERAL_MEDICO |-> total(m),
                 PERC_FORNECEDOR_PARA_MEDICO |->
                     IF total(m) = 0 THEN NULL ELSE PercentRound2(valor, total(m))]
        doMedicoLinhas(m) ==
            LET ps == AscSeq(GroupKeys(doMedico(m), "SP_PJ_DOC"))
            IN  [k \in DOMAIN ps |-> linha(m, ps[k])]
    IN  Concat([g \in DOMAIN ms |-> doMedicoLinhas(ms[g])])

\* concentracao.merge(df_fornecedores[['CNPJ', 'RAZAO_SOCIAL']].drop_duplicates(),
\*     left_on='SP_PJ_DOC', right_on='CNPJ', how='left'): left order kept, one
\* row per matching registry row, a null name without a match.
MergeRazaoSocialMedico(left, registry) ==
    LET reg == Unique(registry)
        matches(l) == SelectSeq(reg, LAMBDA g : g.CNPJ = l.SP_PJ_DOC)
        joined(l) == IF matches(l) = <<>> THEN <<l @@ [RAZAO_SOCIAL |-> NULL]>>
                     ELSE [i \in DOMAIN matches(l) |->
                              l @@ [RAZAO_SOCIAL |-> matches(l)[i].RAZAO_SOCIAL]]
    IN  Concat([p \in DOMAIN left |-> joined(left[p])])

\* valor >= quantile(0.50), the median given in quarters.
NaMedianaOuAcima(valor, mediana_x4) == 4 * valor >= mediana_x4

\* valor > quantile(0.50), the median given in quarters.
AcimaDaMediana(valor, mediana_x4) == 4 * valor > mediana_x4

analisar_concentracao_medico_fornecedor_opme(lines, registry, c) ==
    IF lines = <<>> \/ ~(ColsMedicoFornecedor \subseteq c) THEN EmptyResult
    ELSE LET filtrado == SelectSeq(lines, OpmeDeMedicoComFornecedor)
         IN  IF filtrado = <<>> THEN EmptyResult
             ELSE LET df_med_forn == MedicoFornecedorShare(filtrado)
                      medianaX4 == QuantileX4(Column(df_med_forn, "VALOR_TOTAL_OPME"), 2)
                      sel == SelectSeq(df_med_forn, LAMBDA r :
                                 /\ r.PERC_FORNECEDOR_PARA_MEDICO # NULL
                                 /\ r.PERC_FORNECEDOR_PARA_MEDICO >
                                        LIMITE_CONCENTRACAO_MEDICO_FORNECEDOR_PERC * 100
                                 /\ AcimaDaMediana(r.VALOR_TOTAL_OPME, medianaX4))
                      concentracao ==
                          StableSortAsc(sel, [i \in DOMAIN sel |->
                              <<sel[i].MEDICO, 0 - sel[i].PERC_FORNECEDOR_PARA_MEDICO>>])
                  IN  IF concentracao = <<>> THEN EmptyResult
                      ELSE IF registry # <<>>
                      THEN Table(MergeRazaoSocialMedico(concentracao, registry))
                      ELSE Table(concentracao)

\* Bound: lines of a view.
MaxMedFornLines == 3

\* The lines a view is made of (values 7001 and 3000 give a share of
\* 70.003 %).
MedFornLines ==
    <<[IS_OPME |-> TRUE, MEDICO |-> 1, SP_PJ_DOC |-> 1, SP_VALATO |-> 7001, SP_ATOPROF |-> 7021],
      [IS_OPME |-> TRUE, MEDICO |-> 1, SP_PJ_DOC |-> 2, SP_VALATO |-> 3000, SP_ATOPROF |-> 7021],
      [IS_OPME |-> TRUE, MEDICO |-> 1, SP_PJ_DOC |-> 1, SP_VALATO |-> 1000, SP_ATOPROF |-> 7022],
      [IS_OPME |-> TRUE, MEDICO |-> 2, SP_PJ_DOC |-> 2, SP_VALATO |-> 1000, SP_ATOPROF |-> 7021],
      [IS_OPME |-> TRUE, MEDICO |-> 2, SP_PJ_DOC |-> 1, SP_VALATO |-> 8000, SP_ATOPROF |-> 7021],
      [IS_OPME |-> TRUE, MEDICO |-> 2, SP_PJ_DOC |-> 2, SP_VALATO |-> 0, SP_ATOPROF |-> NULL],
      [IS_OPME |-> TRUE, MEDICO |-> 1, SP_PJ_DOC |-> NULL, SP_VALATO |-> 9000, SP_ATOPROF |-> 7021],
      [IS_OPME |-> TRUE, MEDICO |-> NULL, SP_PJ_DOC |-> 1, SP_VALATO |-> 9000, SP_ATOPROF |-> 7021],
      [IS_OPME |-> TRUE, MEDICO |-> NAO_SE_APLICA, SP_PJ_DOC |-> 1, SP_VALATO |-> 9000, SP_ATOPROF |-> 7021],
      [IS_OPME |-> TRUE, MEDICO |-> DESCONHECIDO_OPME, SP_PJ_DOC |-> 2, SP_VALATO |-> 9000, SP_ATOPROF |-> 7021],
      [IS_OPME |-> FALSE, MEDICO |-> 1, SP_PJ_DOC |-> 2, SP_VALATO |-> 9000, SP_ATOPROF |-> 3011]>>

MedFornViews(n) ==
    UNION {{[i \in 1..k |-> MedFornLines[s[i]]] : s \in [1..k -> DOMAIN MedFornLines]} :
              k \in 0..n}

\* A view with two physicians above both thresholds, the second one first
\* in the view.
MedFornTwoPhysicians ==
    <<[IS_OPME |-> TRUE, MEDICO |-> 2, SP_PJ_DOC |-> 1, SP_VALATO |-> 8000, SP_ATOPROF |-> 7021],
      [IS_OPME |-> TRUE, MEDICO |-> 2, SP_PJ_DOC |-> 2, SP_VALATO |-> 1000, SP_ATOPROF |-> 7021],
      [IS_OPME |-> TRUE, MEDICO |-> 1, SP_PJ_DOC |-> 1, SP_VALATO |-> 7001, SP_ATOPROF |-> 7021],
      [IS_OPME |-> TRUE, MEDICO |-> 1, SP_PJ_DOC |-> 2, SP_VALATO |-> 1000, SP_ATOPROF |-> 7021]>>

InitMedForn ==
    /\ pc = "ready"
    /\ df \in MedFornViews(MaxMedFornLines) \cup {MedFornTwoPhysicians}
    /\ aih = <<>>
    /\ forn \in {<<>>, <<[CNPJ |-> 1, RAZAO_SOCIAL |-> 11]>>,
                 <<[CNPJ |-> 1, RAZAO_SOCIAL |-> 11], [CNPJ |-> 1, RAZAO_SOCIAL |-> 11],
                   [CNPJ |-> 2, RAZAO_SOCIAL |-> 12]>>}
    /\ cols = ColsMedicoFornecedor
    /\ out = EmptyResult
    /\ chamadas = <<>>
    /\ hashseed = 0
    /\ session_state = <<>>
    /\ uploaded = <<>>

run_concentracao_medico_fornecedor_opme ==
    /\ pc = "ready"
    /\ out' = analisar_concentracao_medico_fornecedor_opme(df, forn, cols)
    /\ pc' = "done"
    /\ UNCHANGED <<df, aih, forn, cols, chamadas, hashseed, session_state, uploaded>>

NextMedForn == run_concentracao_medico_fornecedor_opme

SpecMedForn == InitMedForn /\ [][NextMedForn]_vars

\* The device lines with a valid physician and a payee, and the summed
\* device value of a pair and of a physician over them.
LinhasMedForn == {i \in DOMAIN df : OpmeDeMedicoComFornecedor(df[i])}

RECURSIVE SomaValor(_)
SomaValor(I) ==
    IF I = {} THEN 0
    ELSE LET i == CHOOSE j \in I : TRUE IN df[i].SP_VALATO + SomaValor(I \ {i})

ValorDoPar(m, p) == SomaValor({i \in LinhasMedForn : df[i].MEDICO = m /\ df[i].SP_PJ_DOC = p})
ValorDoMedico(m) == SomaValor({i \in LinhasMedForn : df[i].MEDICO = m})
ParesMedForn == {<<df[i].MEDICO, df[i].SP_PJ_DOC>> : i \in LinhasMedForn}

\* Twice the median of the pair sums.
MedianaParesX2 ==
    LET ps == ParesMedForn
        v(q) == ValorDoPar(q[1], q[2])
        abaixo(q) == Cardinality({x \in ps : v(x) < v(q)})
        ate(q) == Cardinality({x \in ps : v(x) <= v(q)})
        n == Cardinality(ps)
        \* the order statistic of rank k (1-based)
        os(k) == v(CHOOSE q \in ps : abaixo(q) < k /\ k <= ate(q))
    IN  IF n % 2 = 1 THEN 2 * os((n + 1) \div 2) ELSE os(n \div 2) + os(n \div 2 + 1)

ParesEsperados ==
    {q \in ParesMedForn :
        /\ 100 * ValorDoPar(q[1], q[2]) > LIMITE_CONCENTRACAO_MEDICO_FORNECEDOR_PERC * ValorDoMedico(q[1])
        /\ 2 * ValorDoPar(q[1], q[2]) > MedianaParesX2}

\* C19: the pairs returned are exactly those whose share of the physician's
\* device value is above 70 % and whose sum is above the median of all pair
\* sums, and the rows are ordered by physician ascending, then share
\* descending, with or without the supplier names joined.
C19_FlaggedIffShareAbove70AndAboveMedian ==
    pc = "done" =>
        /\ {<<out.rows[i].MEDICO, out.rows[i].SP_PJ_DOC>> : i \in DOMAIN out.rows} = ParesEsperados
        /\ \A i, j \in DOMAIN out.rows :
              i < j => \/ out.rows[i].MEDICO < out.rows[j].MEDICO
                       \/ /\ out.rows[i].MEDICO = out.rows[j].MEDICO
                          /\ out.rows[i].PERC_FORNECEDOR_PARA_MEDICO >=
                                 out.rows[j].PERC_FORNECEDOR_PARA_MEDICO

\* The smallest summed device value over all (physician, payee) pairs.
MenorValorDePar ==
    CHOOSE v \in {ValorDoPar(q[1], q[2]) : q \in ParesMedForn} :
        \A q \in ParesMedForn : v <= ValorDoPar(q[1], q[2])

\* C28: a pair whose summed device value equals the minimum over all pairs
\* is never returned; with a single pair, or with all pairs at the same
\* sum, the result is empty, whatever the payee's share.
C28_MinimumPairNeverFlagged ==
    (pc = "done" /\ ParesMedForn # {}) =>
        /\ \A i \in DOMAIN out.rows : out.rows[i].VALOR_TOTAL_OPME # MenorValorDePar
        /\ (\A q \in ParesMedForn : ValorDoPar(q[1], q[2]) = MenorValorDePar)
               => out.rows = <<>>

\* A single pair, the payee holding all of the physician's device value,
\* and nothing is returned.
C28_Witness ==
    /\ pc = "done"
    /\ Cardinality(ParesMedForn) = 1
    /\ \E q \in ParesMedForn : /\ ValorDoPar(q[1], q[2]) = ValorDoMedico(q[1])
                                /\ ValorDoPar(q[1], q[2]) > 0
    /\ out.rows = <<>>

-----------------------------------------------------------------------------
(* The global filters and analisar_medicos_concentrados_hospital:          *)
(* physicians holding most of a facility's claims.                         *)

CONCENTRACAO_MEDICO_HOSPITAL_PERC_LIMITE == 50

\* The selectbox entry 'Todos' (no filter), as a code outside the physician
\* and facility numbers.
Todos == 0

ColsMedicosHospital == {"IS_OPME", "MEDICO", "SP_CNES", "SP_NAIH"}

\* The claim-level columns used here of groupby('SP_NAIH').first(): one row
\* per claim id, ascending, with the first non-null facility of its lines.
ClaimViewCnes(lines) ==
    LET keys == AscSeq(GroupKeys(lines, "SP_NAIH"))
    IN  [p \in DOMAIN keys |->
            [SP_NAIH |-> keys[p],
             SP_CNES |-> FirstNonNull(SelectSeq(lines, LAMBDA r : r.SP_NAIH = keys[p]),
                                      "SP_CNES")]]

\* The physician and facility filters of the sidebar applied to the loaded
\* views (the year range and the procedure filter left at everything).
FiltrarLinhas(original, medico_filtrado, cnes_filtrado) ==
    SelectSeq(original, LAMBDA r :
        /\ medico_filtrado # Todos => r.MEDICO = medico_filtrado
        /\ cnes_filtrado # Todos => r.SP_CNES = cnes_filtrado)

FiltrarAihCustos(original, unicos, medico_filtrado, cnes_filtrado) ==
    LET aihs_do_medico ==
            {original[i].SP_NAIH : i \in {j \in DOMAIN original :
                                             original[j].MEDICO = medico_filtrado}}
    IN  SelectSeq(unicos, LAMBDA r :
            /\ medico_filtrado # Todos => r.SP_NAIH \in aihs_do_medico
            /\ cnes_filtrado # Todos => r.SP_CNES = cnes_filtrado)

\* The row filter of the detector.
AtoDeMedicoNoHospital(r) ==
    /\ ~r.IS_OPME
    /\ r.MEDICO # NULL
    /\ r.MEDICO # NAO_SE_APLICA
    /\ r.MEDICO # DESCONHECIDO_OPME
    /\ r.SP_CNES # NULL

\* Series.nunique() of SP_NAIH over rows t.
NUnique(t) == Cardinality({t[i].SP_NAIH : i \in DOMAIN t} \ {NULL})

analisar_medicos_concentrados_hospital(lines, view, c) ==
    IF lines = <<>> \/ view = <<>> \/ ~(ColsMedicosHospital \subseteq c) THEN EmptyResult
    ELSE LET t == SelectSeq(lines, AtoDeMedicoNoHospital)
             v == SelectSeq(view, LAMBDA r : r.SP_CNES # NULL)
             cnes == AscSeq(GroupKeys(t, "SP_CNES"))
             total(h) ==
                 IF \E i \in DOMAIN v : v[i].SP_CNES = h
                 THEN NUnique(SelectSeq(v, LAMBDA r : r.SP_CNES = h))
                 ELSE NULL
             linha(h, m) ==
                 LET num == NUnique(SelectSeq(t, LAMBDA r : r.SP_CNES = h /\ r.MEDICO = m))
                     tot == total(h)
                 IN  [SP_CNES |-> h, MEDICO |-> m, NUM_AIH_MEDICO_HOSP |-> num,
                      TOTAL_AIH_HOSPITAL |-> tot,
                      PERCENTUAL_AIH_MEDICO |->
                          IF tot = NULL \/ tot = 0 THEN NULL ELSE PercentRound2(num, tot)]
             doHospital(h) ==
                 LET ms == AscSeq(GroupKeys(SelectSeq(t, LAMBDA r : r.SP_CNES = h), "MEDICO"))
                 IN  [k \in DOMAIN ms |-> linha(h, ms[k])]
             merged_data == Concat([g \in DOMAIN cnes |-> doHospital(cnes[g])])
             concentrados ==
                 SelectSeq(merged_data, LAMBDA r :
                     /\ r.PERCENTUAL_AIH_MEDICO # NULL
                     /\ r.PERCENTUAL_AIH_MEDICO > CONCENTRACAO_MEDICO_HOSPITAL_PERC_LIMITE * 100)
         IN  IF t = <<>> \/ v = <<>> \/ concentrados = <<>> THEN EmptyResult
             ELSE Table(StableSortAsc(concentrados, [i \in DOMAIN concentrados |->
                      <<concentrados[i].SP_CNES, 0 - concentrados[i].PERCENTUAL_AIH_MEDICO>>]))

\* Bounds: lines of a freely built dataset; claims of the large facility.
MaxHospLines == 3
ClaimsGrandeHospital == 10001

\* The lines a freely built dataset is made of.
HospLines ==
    <<[SP_NAIH |-> 1, IS_OPME |-> FALSE, MEDICO |-> 1, SP_CNES |-> 1],
      [SP_NAIH |-> 2, IS_OPME |-> FALSE, MEDICO |-> 1, SP_CNES |-> 1],
      [SP_NAIH |-> 2, IS_OPME |-> FALSE, MEDICO |-> 2, SP_CNES |-> 1],
      [SP_NAIH |-> 3, IS_OPME |-> FALSE, MEDICO |-> 2, SP_CNES |-> 1],
      [SP_NAIH |-> 3, IS_OPME |-> TRUE, MEDICO |-> 1, SP_CNES |-> 1],
      [SP_NAIH |-> 4, IS_OPME |-> FALSE, MEDICO |-> 1, SP_CNES |-> 2],
      [SP_NAIH |-> 4, IS_OPME |-> FALSE, MEDICO |-> NAO_SE_APLICA, SP_CNES |-> 2],
      [SP_NAIH |-> 5, IS_OPME |-> FALSE, MEDICO |-> NULL, SP_CNES |-> 2],
      [SP_NAIH |-> 5, IS_OPME |-> FALSE, MEDICO |-> 2, SP_CNES |-> NULL]>>

\* The loaded datasets: a line view and its claim view.
Carregado(lines) == [df_original |-> lines, df_aih_custos_unicos |-> ClaimViewCnes(lines)]

\* A facility of n claims of one line each, the first n \div 2 + 1 of
\* physician 1 and the others of physician 2.
GrandeHospital(n) ==
    [df_original |->
        [i \in 1..n |-> [SP_NAIH |-> i, IS_OPME |-> FALSE,
                         MEDICO |-> IF i <= n \div 2 + 1 THEN 1 ELSE 2, SP_CNES |-> 1]],
     df_aih_custos_unicos |-> [i \in 1..n |-> [SP_NAIH |-> i, SP_CNES |-> 1]]]

HospDatasets(n) ==
    {GrandeHospital(ClaimsGrandeHospital)} \cup
    UNION {{Carregado([i \in 1..k |-> HospLines[s[i]]]) : s \in [1..k -> DOMAIN HospLines]} :
              k \in 1..n}

InitHosp ==
    /\ pc = "loaded"
    /\ session_state \in HospDatasets(MaxHospLines)
    /\ df = <<>>
    /\ aih = <<>>
    /\ forn = <<>>
    /\ cols = ColsMedicosHospital
    /\ out = EmptyResult
    /\ chamadas = <<>>
    /\ hashseed = 0
    /\ uploaded = <<>>

\* The filter block of the script: the filtered views are stored for the tabs.
aplicar_filtros_globais ==
    /\ pc = "loaded"
    /\ \E medico_filtrado \in {Todos, 1, 2}, cnes_filtrado \in {Todos, 1, 2} :
          /\ df' = FiltrarLinhas(session_state.df_original, medico_filtrado, cnes_filtrado)
          /\ aih' = FiltrarAihCustos(session_state.df_original,
                                     session_state.df_aih_custos_unicos,
                                     medico_filtrado, cnes_filtrado)
    /\ pc' = "ready"
    /\ UNCHANGED <<forn, cols, out, chamadas, hashseed, session_state, uploaded>>

\* The alert tab's call, on the filtered views.
run_medicos_concentrados_hospital ==
    /\ pc = "ready"
    /\ out' = analisar_medicos_concentrados_hospital(df, aih, cols)
    /\ pc' = "done"
    /\ UNCHANGED <<df, aih, forn, cols, chamadas, hashseed, session_state, uploaded>>

NextHosp == aplicar_filtros_globais \/ run_medicos_concentrados_hospital

SpecHosp == InitHosp /\ [][NextHosp]_vars

\* The distinct claims with a non-device line of valid physician m at
\* facility h in the filtered line view, and the distinct claims of facility
\* h in the filtered claim view.
ClaimsDoMedicoNoHospital(h, m) ==
    Cardinality({df[i].SP_NAIH : i \in {j \in DOMAIN df :
                     AtoDeMedicoNoHospital(df[j]) /\ df[j].SP_CNES = h /\ df[j].MEDICO = m}}
                \ {NULL})

ClaimsDoHospital(h) ==
    Cardinality({aih[i].SP_NAIH : i \in {j \in DOMAIN aih : aih[j].SP_CNES = h}})

ParesHospitalMedico ==
    {<<df[i].SP_CNES, df[i].MEDICO>> : i \in {j \in DOMAIN df : AtoDeMedicoNoHospital(df[j])}}

\* C20: the pairs returned are exactly the (facility, physician) pairs whose
\* claims are more than 50 % of the facility's claims in the filtered claim
\* view, ordered by facility ascending, then share descending.
C20_FlaggedIffShareAboveHalf ==
    pc = "done" =>
        /\ {<<out.rows[i].SP_CNES, out.rows[i].MEDICO>> : i \in DOMAIN out.rows} =
               {q \in ParesHospitalMedico :
                   /\ ClaimsDoHospital(q[1]) > 0
                   /\ 100 * ClaimsDoMedicoNoHospital(q[1], q[2]) >
                          CONCENTRACAO_MEDICO_HOSPITAL_PERC_LIMITE * ClaimsDoHospital(q[1])}
        /\ \A i, j \in DOMAIN out.rows :
              i < j => \/ out.rows[i].SP_CNES < out.rows[j].SP_CNES
                       \/ /\ out.rows[i].SP_CNES = out.rows[j].SP_CNES
                          /\ out.rows[i].PERCENTUAL_AIH_MEDICO >= out.rows[j].PERCENTUAL_AIH_MEDICO

-----------------------------------------------------------------------------
(* analisar_alta_proporcao_valsp_valsh: claims whose professional-service  *)
(* value is many times the hospital-service value.  A quotient is a record *)
(* num/den with den >= 0; den = 0 stands for the infinities and 0/0.       *)

ALTA_PROPORCAO_SP_SH_LIMITE == 5

\* The denominator left as it is.
KeepZero(x) == x

\* Series.replace(0, np.nan) on one cell.
ReplaceZeroByNaN(x) == IF x = 0 THEN NULL ELSE x

\* a / b on floats, b possibly NaN.
Quociente(a, b) ==
    IF b = NULL THEN NaN
    ELSE IF b < 0 THEN [num |-> 0 - a, den |-> 0 - b]
    ELSE [num |-> a, den |-> b]

\* q > k for a quotient q (false for NaN).
QuocienteMaior(q, k) == q.num > k * q.den

\* sort_values(col, ascending=False) on a quotient column without NaN.
SortByQuocienteDesc(s, col) ==
    LET n == Len(s)
        maior(j, i) == s[j][col].num * s[i][col].den > s[i][col].num * s[j][col].den
        igual(j, i) == s[j][col].num * s[i][col].den = s[i][col].num * s[j][col].den
        rank(i) == Cardinality({j \in 1..n : maior(j, i) \/ (igual(j, i) /\ j < i)}) + 1
    IN  [p \in 1..n |-> s[CHOOSE i \in 1..n : rank(i) = p]]

analisar_alta_proporcao_valsp_valsh(view, c) ==
    IF view = <<>> \/ ~({"VAL_SP", "VAL_SH"} \subseteq c) THEN EmptyResult
    ELSE LET df_ratio ==
                 [i \in DOMAIN view |->
                     [SP_NAIH |-> view[i].SP_NAIH, VAL_SH |-> view[i].VAL_SH,
                      VAL_SP |-> view[i].VAL_SP,
                      RATIO_SP_SH |-> Quociente(view[i].VAL_SP, ReplaceZeroByNaN(view[i].VAL_SH))]]
             altas_proporcoes ==
                 SelectSeq(df_ratio, LAMBDA r :
                     QuocienteMaior(r.RATIO_SP_SH, ALTA_PROPORCAO_SP_SH_LIMITE))
         IN  IF altas_proporcoes = <<>> THEN EmptyResult
             ELSE Table(SortByQuocienteDesc(altas_proporcoes, "RATIO_SP_SH"))

\* Bound: claims of the view.
MaxRatioClaims == 3

\* Claim views of k <= n claims with hospital values 0, 1, -2 and
\* professional values 0, 5, 6, -11 (the quotients 5, 6 and 5.5 occur).
RatioViews(n) ==
    UNION {{[i \in 1..k |-> [SP_NAIH |-> i, VAL_SH |-> f[i][1], VAL_SP |-> f[i][2]]] :
               f \in [1..k -> {0, 1, 0 - 2} \X {0, 5, 6, 0 - 11}]} : k \in 0..n}

InitRatio ==
    /\ pc = "ready"
    /\ df = <<>>
    /\ aih \in RatioViews(MaxRatioClaims)
    /\ forn = <<>>
    /\ cols \in {AihCols, AihCols \ {"VAL_SH"}}
    /\ out = EmptyResult
    /\ chamadas = <<>>
    /\ hashseed = 0
    /\ session_state = <<>>
    /\ uploaded = <<>>

run_alta_proporcao_valsp_valsh ==
    /\ pc = "ready"
    /\ out' = analisar_alta_proporcao_valsp_valsh(aih, cols)
    /\ pc' = "done"
    /\ UNCHANGED <<df, aih, forn, cols, chamadas, hashseed, session_state, uploaded>>

NextRatio == run_alta_proporcao_valsp_valsh

SpecRatio == InitRatio /\ [][NextRatio]_vars

\* professional / hospital > 5 for a row with a non-zero hospital value.
ProfissionalAcimaDeCincoVezes(r) ==
    \/ r.VAL_SH > 0 /\ r.VAL_SP > ALTA_PROPORCAO_SP_SH_LIMITE * r.VAL_SH
    \/ r.VAL_SH < 0 /\ r.VAL_SP < ALTA_PROPORCAO_SP_SH_LIMITE * r.VAL_SH

\* C21: on a view with the two value columns the detector returns exactly
\* the claims with a non-zero hospital value and professional / hospital > 5
\* (never a claim with hospital value 0), by ratio descending.
C21_FlaggedIffRatioAboveFive ==
    (pc = "done" /\ {"VAL_SP", "VAL_SH"} \subseteq cols) =>
        /\ {out.rows[i].SP_NAIH : i \in DOMAIN out.rows} =
               {aih[i].SP_NAIH : i \in {j \in DOMAIN aih : ProfissionalAcimaDeCincoVezes(aih[j])}}
        /\ Len(out.rows) <= Len(aih)
        /\ \A i \in DOMAIN out.rows : out.rows[i].VAL_SH # 0
        /\ \A i, j \in DOMAIN out.rows :
              i < j => out.rows[i].VAL_SP * out.rows[j].VAL_SH * out.rows[i].VAL_SH * out.rows[j].VAL_SH
                       >= out.rows[j].VAL_SP * out.rows[i].VAL_SH * out.rows[i].VAL_SH * out.rows[j].VAL_SH

\* A claim with hospital value 0 and a positive professional value stays
\* out while two others are returned with different ratios.
C21_Witness ==
    /\ pc = "done"
    /\ Len(out.rows) = 2
    /\ out.rows[1].VAL_SP * out.rows[2].VAL_SH # out.rows[2].VAL_SP * out.rows[1].VAL_SH
    /\ \E i \in DOMAIN aih : aih[i].VAL_SH = 0 /\ aih[i].VAL_SP > 0

-----------------------------------------------------------------------------
(* analisar_alta_proporcao_custo_opme_total: claims whose device cost is   *)
(* most of their total cost.  The line view is joined to the claim view    *)
(* load_and_process_data built from the same lines.                        *)

\* 0.7 in tenths.
ALTA_PROPORCAO_OPME_CUSTO_LIMITE_X10 == 7

ColsOpmeTotalDf == {"IS_OPME", "SP_NAIH", "SP_VALATO"}

ColsOpmeTotalAih == {"SP_NAIH", "VAL_SH", "VAL_SP", "NOME"}

\* The claim view of load_and_process_data, projected on the value columns.
ClaimViewCustos(lines) ==
    LET kept == SelectSeq(lines, LAMBDA r : r.SP_PF_DOC # SENTINEL_PF_DOC)
        keys == AscSeq(GroupKeys(kept, "SP_NAIH"))
        grp(c) == SelectSeq(kept, LAMBDA r : r.SP_NAIH = c)
    IN  [p \in DOMAIN keys |->
            [SP_NAIH |-> keys[p],
             VAL_SH |-> FirstNonNull(grp(keys[p]), "VAL_SH"),
             VAL_SP |-> FirstNonNull(grp(keys[p]), "VAL_SP")]]

analisar_alta_proporcao_custo_opme_total(lines, view, c, ca) ==
    IF lines = <<>> \/ view = <<>> \/ ~(ColsOpmeTotalDf \subseteq c)
       \/ ~(ColsOpmeTotalAih \subseteq ca)
    THEN EmptyResult
    ELSE LET custo_opme_por_aih == CustoOpmePorAih(lines)
             m == MergeCustoLeft(view, custo_opme_por_aih)
             df_merged ==
                 [i \in DOMAIN m |->
                     LET total == m[i].VAL_SH + m[i].VAL_SP + m[i].CUSTO_TOTAL_OPME_AIH
                     IN  [SP_NAIH |-> m[i].SP_NAIH,
                          CUSTO_TOTAL_OPME_AIH |-> m[i].CUSTO_TOTAL_OPME_AIH,
                          CUSTO_TOTAL_AIH_CALC |-> total,
                          RATIO_OPME_TOTAL |->
                              Quociente(m[i].CUSTO_TOTAL_OPME_AIH, ReplaceZeroByNaN(total))]]
             altas_proporcoes ==
                 SelectSeq(df_merged, LAMBDA r :
                     10 * r.RATIO_OPME_TOTAL.num >
                         ALTA_PROPORCAO_OPME_CUSTO_LIMITE_X10 * r.RATIO_OPME_TOTAL.den)
         IN  IF custo_opme_por_aih = <<>> \/ altas_proporcoes = <<>> THEN EmptyResult
             ELSE Table(SortByQuocienteDesc(altas_proporcoes, "RATIO_OPME_TOTAL"))

\* Bound: lines of the device-share data.
MaxShareLines == 3

\* Hospital and professional value of the claim, repeated on each line.
ValShDaAih(c) == IF c = 1 THEN 2 ELSE 0

ValSpDaAih(c) == IF c = 1 THEN 1 ELSE 0

\* Lines of claims 1 (hospital 2, professional 1) and 2 (both 0), device or
\* not, worth 7 or 8, with a real or the all-zero professional payee.
ShareLines ==
    {[SP_NAIH |-> c, SP_PF_DOC |-> p, IS_OPME |-> o, SP_VALATO |-> v,
      VAL_SH |-> ValShDaAih(c), VAL_SP |-> ValSpDaAih(c)] :
        c \in {1, 2}, p \in {SENTINEL_PF_DOC, 7}, o \in BOOLEAN, v \in {7, 8}}

ShareViews(n) == SeqsUpTo(ShareLines, n)

InitShare ==
    /\ pc = "raw"
    /\ df \in ShareViews(MaxShareLines)
    /\ aih = <<>>
    /\ forn = <<>>
    /\ cols = DfCols
    /\ out = EmptyResult
    /\ chamadas = <<>>
    /\ hashseed = 0
    /\ session_state = <<>>
    /\ uploaded = <<>>

\* load_and_process_data, as far as the claim view goes.
carregar_aih_custos ==
    /\ pc = "raw"
    /\ aih' = ClaimViewCustos(df)
    /\ pc' = "loaded"
    /\ UNCHANGED <<df, forn, cols, out, chamadas, hashseed, session_state, uploaded>>

run_alta_proporcao_custo_opme_total ==
    /\ pc = "loaded"
    /\ out' = analisar_alta_proporcao_custo_opme_total(df, aih, cols, AihCols)
    /\ pc' = "done"
    /\ UNCHANGED <<df, aih, forn, cols, chamadas, hashseed, session_state, uploaded>>

NextShare == carregar_aih_custos \/ run_alta_proporcao_custo_opme_total

SpecShare == InitShare /\ [][NextShare]_vars

\* The claims of the line view that have device lines.
AihsComOpme == {df[i].SP_NAIH : i \in {j \in DOMAIN df : df[j].IS_OPME}}

CustoOpmeDaAih(c) ==
    SumSeq(Column(SelectSeq(df, LAMBDA r : r.IS_OPME /\ r.SP_NAIH = c), "SP_VALATO"))

CustoTotalDaAih(c) == ValShDaAih(c) + ValSpDaAih(c) + CustoOpmeDaAih(c)

\* C22: the detector returns exactly the claims of the line view with device
\* lines whose total cost (hospital + professional + device) is non-zero and
\* whose device cost is more than 0.70 of it, each with that total, by
\* ratio descending.
C22_FlaggedIffDeviceShareAbove70 ==
    pc = "done" =>
        /\ {out.rows[i].SP_NAIH : i \in DOMAIN out.rows} =
               {c \in AihsComOpme :
                   /\ CustoTotalDaAih(c) # 0
                   /\ 10 * CustoOpmeDaAih(c) >
                          ALTA_PROPORCAO_OPME_CUSTO_LIMITE_X10 * CustoTotalDaAih(c)}
        /\ \A i \in DOMAIN out.rows :
              out.rows[i].CUSTO_TOTAL_AIH_CALC = CustoTotalDaAih(out.rows[i].SP_NAIH)
        /\ \A i, j \in DOMAIN out.rows :
              i < j => out.rows[i].RATIO_OPME_TOTAL.num * out.rows[j].RATIO_OPME_TOTAL.den
                       >= out.rows[j].RATIO_OPME_TOTAL.num * out.rows[i].RATIO_OPME_TOTAL.den

-----------------------------------------------------------------------------
(* analisar_nf_duplicadas_opme: device invoices of one payee that appear   *)
(* on more than one claim.                                                 *)

ColsNfDuplicadas == {"IS_OPME", "SP_NF", "SP_NAIH", "SP_PJ_DOC", "SP_VALATO"}

\* A grouping by the invoice number alone.
ChaveSoNf(r) == <<0, r.SP_NF>>

\* The key of groupby(['SP_PJ_DOC', 'SP_NF']).
ChaveNf(r) == <<r.SP_PJ_DOC, r.SP_NF>>

\* Device lines with an invoice number other than "N/A" and with a payee.
OpmeComNf(r) ==
    r.IS_OPME /\ r.SP_NF # NULL /\ r.SP_NF # NF_NA /\ r.SP_PJ_DOC # NULL

\* f"{n} AIHs ({', '.join(lista[:3])}" + ("..." if len(lista) > 3 else "") + ")"
\* for the sorted distinct claim ids lista.
FormatAihAssociadas(n, lista) ==
    [n |-> n, items |-> FirstThree(lista), ellipsis |-> Len(lista) > 3]

\* groupby(['SP_PJ_DOC', 'SP_NF']).agg(nunique, sum, sorted unique).reset_index()
NfPorFornecedor(t) ==
    LET K == {ChaveNf(t[i]) : i \in DOMAIN t}
        keys == [p \in 1..Cardinality(K) |->
                    CHOOSE k \in K : Cardinality({y \in K : LexLess(y, k)}) = p - 1]
        grp(k) == SelectSeq(t, LAMBDA r : ChaveNf(r) = k)
    IN  [p \in DOMAIN keys |->
            [SP_PJ_DOC |-> keys[p][1], SP_NF |-> keys[p][2],
             NUM_AIH_ASSOCIADAS |-> Cardinality(GroupKeys(grp(keys[p]), "SP_NAIH")),
             VALOR_TOTAL_OPME |-> SumSeq(Column(grp(keys[p]), "SP_VALATO")),
             AIH_LISTA |-> AscSeq(GroupKeys(grp(keys[p]), "SP_NAIH"))]]

analisar_nf_duplicadas_opme(lines, registry, c) ==
    IF lines = <<>> \/ ~(ColsNfDuplicadas \subseteq c) THEN EmptyResult
    ELSE LET opme_com_nf == SelectSeq(lines, OpmeComNf)
             duplicadas == SelectSeq(NfPorFornecedor(opme_com_nf),
                                     LAMBDA r : r.NUM_AIH_ASSOCIADAS > 1)
             merged == IF registry # <<>> THEN MergeRazaoSocialMedico(duplicadas, registry)
                       ELSE duplicadas
             formatted ==
                 [i \in DOMAIN merged |->
                     [x \in DOMAIN merged[i] \ {"AIH_LISTA"} |-> merged[i][x]] @@
                     [AIH_ASSOCIADAS |->
                         FormatAihAssociadas(merged[i].NUM_AIH_ASSOCIADAS, merged[i].AIH_LISTA)]]
         IN  IF opme_com_nf = <<>> \/ duplicadas = <<>> THEN EmptyResult
             ELSE Table(StableSortAsc(formatted,
                      [i \in DOMAIN formatted |-> <<0 - formatted[i].VALOR_TOTAL_OPME>>]))

\* Bound: lines of a freely composed invoice view.
MaxNfLines == 3

\* Invoice 5 of payee 1 on claims 1..4 (value 5 each) and of payee 2 on
\* claims 1 and 2 (value 7 each); a device line with "N/A", one without
\* invoice number, and a line that is no device.
NfLines ==
    <<[SP_NAIH |-> 1, IS_OPME |-> TRUE, SP_PJ_DOC |-> 1, SP_NF |-> 5, SP_VALATO |-> 5],
      [SP_NAIH |-> 2, IS_OPME |-> TRUE, SP_PJ_DOC |-> 1, SP_NF |-> 5, SP_VALATO |-> 5],
      [SP_NAIH |-> 3, IS_OPME |-> TRUE, SP_PJ_DOC |-> 1, SP_NF |-> 5, SP_VALATO |-> 5],
      [SP_NAIH |-> 4, IS_OPME |-> TRUE, SP_PJ_DOC |-> 1, SP_NF |-> 5, SP_VALATO |-> 5],
      [SP_NAIH |-> 1, IS_OPME |-> TRUE, SP_PJ_DOC |-> 2, SP_NF |-> 5, SP_VALATO |-> 7],
      [SP_NAIH |-> 2, IS_OPME |-> TRUE, SP_PJ_DOC |-> 2, SP_NF |-> 5, SP_VALATO |-> 7],
      [SP_NAIH |-> 2, IS_OPME |-> TRUE, SP_PJ_DOC |-> 1, SP_NF |-> NF_NA, SP_VALATO |-> 5],
      [SP_NAIH |-> 3, IS_OPME |-> TRUE, SP_PJ_DOC |-> 1, SP_NF |-> NULL, SP_VALATO |-> 5],
      [SP_NAIH |-> 3, IS_OPME |-> FALSE, SP_PJ_DOC |-> 1, SP_NF |-> 5, SP_VALATO |-> 5]>>

NfViews(n) == SeqsUpTo({NfLines[i] : i \in DOMAIN NfLines}, n)

\* The invoice on four claims, the invoice under both payees, and both.
NfWideViews ==
    {SubSeq(NfLines, 1, 4), SubSeq(NfLines, 1, 2) \o SubSeq(NfLines, 5, 6),
     SubSeq(NfLines, 1, 6)}

InitNf ==
    /\ pc = "ready"
    /\ df \in NfViews(MaxNfLines) \cup NfWideViews
    /\ aih = <<>>
    /\ forn \in {<<>>, <<[CNPJ |-> 1, RAZAO_SOCIAL |-> 11]>>}
    /\ cols \in {DfCols, DfCols \ {"SP_NF"}}
    /\ out = EmptyResult
    /\ chamadas = <<>>
    /\ hashseed = 0
    /\ session_state = <<>>
    /\ uploaded = <<>>

run_nf_duplicadas_opme ==
    /\ pc = "ready"
    /\ out' = analisar_nf_duplicadas_opme(df, forn, cols)
    /\ pc' = "done"
    /\ UNCHANGED <<df, aih, forn, cols, chamadas, hashseed, session_state, uploaded>>

NextNf == run_nf_duplicadas_opme

SpecNf == InitNf /\ [][NextNf]_vars

\* The device lines of payee p with invoice number nf, and their claims.
LinhasDaNf(p, nf) ==
    SelectSeq(df, LAMBDA r : r.IS_OPME /\ r.SP_PJ_DOC = p /\ r.SP_NF = nf)

AihsDaNf(p, nf) == {LinhasDaNf(p, nf)[i].SP_NAIH : i \in DOMAIN LinhasDaNf(p, nf)}

\* The (payee, invoice) pairs with a real invoice number on more than one claim.
NfsDuplicadas ==
    {k \in {<<df[i].SP_PJ_DOC, df[i].SP_NF>> : i \in DOMAIN df} :
        /\ k[1] # NULL /\ k[2] # NULL /\ k[2] # NF_NA
        /\ Cardinality(AihsDaNf(k[1], k[2])) > 1}

-----------------------------------------------------------------------------
(* The supplier-registry join of the three detectors that show a supplier  *)
(* name: analisar_fornecedores_opme_concentrados, analisar_nf_duplicadas_  *)
(* opme and analisar_concentracao_medico_fornecedor_opme, run on the same  *)
(* line view and registry.                                                 *)

\* Bound: lines of the view.
MaxJoinLines == 3

\* Device lines of claims 1 and 2, physicians 1 and 2 and payees 1 (value
\* 7001) and 2 (value 1000), all on invoice 5.
JoinLines ==
    {[SP_NAIH |-> a, IS_OPME |-> TRUE, MEDICO |-> m, SP_PJ_DOC |-> p, SP_NF |-> 5,
      SP_VALATO |-> IF p = 1 THEN 7001 ELSE 1000, SP_ATOPROF |-> 7021] :
        a \in {1, 2}, m \in {1, 2}, p \in {1, 2}}

JoinViews(n) == SeqsUpTo(JoinLines, n)

\* No registry rows, a registry without payee 1, payee 1 listed twice with
\* the same name, payee 1 listed under two names.
JoinRegistries ==
    {<<>>,
     <<[CNPJ |-> 2, RAZAO_SOCIAL |-> 12]>>,
     <<[CNPJ |-> 1, RAZAO_SOCIAL |-> 11], [CNPJ |-> 1, RAZAO_SOCIAL |-> 11]>>,
     <<[CNPJ |-> 1, RAZAO_SOCIAL |-> 11], [CNPJ |-> 1, RAZAO_SOCIAL |-> 13]>>}

InitJoin ==
    /\ pc = "ready"
    /\ df \in JoinViews(MaxJoinLines)
    /\ aih = <<>>
    /\ forn \in JoinRegistries
    /\ cols = DfCols
    /\ out = EmptyResult
    /\ chamadas = <<>>
    /\ hashseed = 0
    /\ session_state = <<>>
    /\ uploaded = <<>>

join_fornecedores_opme_concentrados ==
    /\ pc = "ready"
    /\ out' = analisar_fornecedores_opme_concentrados(df, forn, cols)
    /\ pc' = "fornecedores"
    /\ UNCHANGED <<df, aih, forn, cols, chamadas, hashseed, session_state, uploaded>>

join_nf_duplicadas_opme ==
    /\ pc = "ready"
    /\ out' = analisar_nf_duplicadas_opme(df, forn, cols)
    /\ pc' = "notas_fiscais_duplicadas"
    /\ UNCHANGED <<df, aih, forn, cols, chamadas, hashseed, session_state, uploaded>>

join_concentracao_medico_fornecedor_opme ==
    /\ pc = "ready"
    /\ out' = analisar_concentracao_medico_fornecedor_opme(df, forn, cols)
    /\ pc' = "concentracao_medico_fornecedor"
    /\ UNCHANGED <<df, aih, forn, cols, chamadas, hashseed, session_state, uploaded>>

NextJoin ==
    \/ join_fornecedores_opme_concentrados
    \/ join_nf_duplicadas_opme
    \/ join_concentracao_medico_fornecedor_opme

SpecJoin == InitJoin /\ [][NextJoin]_vars

\* What the detector that ran returns without a registry: its flagged
\* entities, one row each.
SemCadastro ==
    CASE pc = "fornecedores" -> analisar_fornecedores_opme_concentrados(df, <<>>, cols)
      [] pc = "notas_fiscais_duplicadas" -> analisar_nf_duplicadas_opme(df, <<>>, cols)
      [] pc = "concentracao_medico_fornecedor" ->
             analisar_concentracao_medico_fornecedor_opme(df, <<>>, cols)

\* C24: whatever the registry holds, each of the three detectors returns
\* one row per flagged entity, the rows it returns without a registry, and
\* a row whose payee is not in the registry has a null supplier name.
C24_JoinKeepsOneRowPerEntity ==
    pc # "ready" =>
        /\ Len(out.rows) = Len(SemCadastro.rows)
        /\ forn # <<>> =>
              \A i \in DOMAIN out.rows :
                  (\A g \in DOMAIN forn : forn[g].CNPJ # out.rows[i].SP_PJ_DOC)
                      => out.rows[i].RAZAO_SOCIAL = NULL

-----------------------------------------------------------------------------
(* analisar_pacientes_multiplos_atos_prof on patients whose lines carry    *)
(* more than one patient name.                                             *)

\* Bound: lines of the view.
MaxPacLines == 3

\* Non-device lines of patients 1 and 2 under the names 1 and 2 with the
\* acts 1..3, and a device line of patient 1.
PacLines ==
    [PACCNS : {1, 2}, NOME : {1, 2}, IS_OPME : {FALSE}, SP_ATOPROF : {1, 2, 3},
     DESC_ATO_PROF : {1}]
    \cup {[PACCNS |-> 1, NOME |-> 1, IS_OPME |-> TRUE, SP_ATOPROF |-> 3, DESC_ATO_PROF |-> 1]}

PacViews(n) == SeqsUpTo(PacLines, n)

InitPac ==
    /\ pc = "ready"
    /\ df \in PacViews(MaxPacLines)
    /\ aih = <<>>
    /\ forn = <<>>
    /\ cols = DfCols
    /\ out = EmptyResult
    /\ chamadas = <<>>
    /\ hashseed \in HashSeeds
    /\ session_state = <<>>
    /\ uploaded = <<>>

run_pacientes_multiplos_atos ==
    /\ pc = "ready"
    /\ out' = analisar_pacientes_multiplos_atos_prof(df, cols, hashseed)
    /\ pc' = "done"
    /\ UNCHANGED <<df, aih, forn, cols, chamadas, hashseed, session_state, uploaded>>

NextPac == run_pacientes_multiplos_atos

SpecPac == InitPac /\ [][NextPac]_vars

\* The distinct procedure codes over all the non-device lines of patient p.
AtosDoPaciente(p) ==
    {df[i].SP_ATOPROF : i \in {j \in DOMAIN df : ~df[j].IS_OPME /\ df[j].PACCNS = p}} \ {NULL}

\* C25: the detector returns at most 15 rows, one for each patient whose
\* non-device lines carry more than 2 distinct procedure codes, with that
\* count, in descending order of the count.
C25_FlaggedIffMoreThanTwoActsPerPatient ==
    pc = "done" =>
        /\ {out.rows[i].PACCNS : i \in DOMAIN out.rows} =
               {p \in GroupKeys(df, "PACCNS") :
                   Cardinality(AtosDoPaciente(p)) > MULTIPLOS_ATOS_PROF_PACIENTE_LIMITE}
        /\ \A i \in DOMAIN out.rows :
              out.rows[i].NUM_ATOS_DISTINTOS = Cardinality(AtosDoPaciente(out.rows[i].PACCNS))
        /\ Len(out.rows) <= 15
        /\ \A i, j \in DOMAIN out.rows :
              i < j => out.rows[i].NUM_ATOS_DISTINTOS >= out.rows[j].NUM_ATOS_DISTINTOS

-----------------------------------------------------------------------------
(* analisar_medicos_concentrados_hospital on the claim view that           *)
(* load_and_process_data builds from the line view.                        *)

\* df[df['SP_PF_DOC'] != SENTINEL].groupby('SP_NAIH').first(), projected on
\* the facility.
ClaimViewHospital(lines) ==
    ClaimViewCnes(SelectSeq(lines, LAMBDA r : r.SP_PF_DOC # SENTINEL_PF_DOC))

\* Bound: lines of the loaded file.
MaxHospShareLines == 3

\* Non-device lines of claims 1 and 2, physicians 1 and 2, facilities 1 and
\* 2, with a real or the all-zero professional payee.
HospShareLines ==
    [SP_NAIH : {1, 2}, SP_PF_DOC : {SENTINEL_PF_DOC, 7}, IS_OPME : {FALSE},
     MEDICO : {1, 2}, SP_CNES : {1, 2}]

HospShareViews(n) == SeqsUpTo(HospShareLines, n)

InitHospShare ==
    /\ pc = "raw"
    /\ df \in HospShareViews(MaxHospShareLines)
    /\ aih = <<>>
    /\ forn = <<>>
    /\ cols = ColsMedicosHospital
    /\ out = EmptyResult
    /\ chamadas = <<>>
    /\ hashseed = 0
    /\ session_state = <<>>
    /\ uploaded = <<>>

\* load_and_process_data, as far as the claim view goes.
carregar_aih_hospital ==
    /\ pc = "raw"
    /\ aih' = ClaimViewHospital(df)
    /\ pc' = "ready"
    /\ UNCHANGED <<df, forn, cols, out, chamadas, hashseed, session_state, uploaded>>

run_medicos_concentrados_por_hospital ==
    /\ pc = "ready"
    /\ out' = analisar_medicos_concentrados_hospital(df, aih, cols)
    /\ pc' = "done"
    /\ UNCHANGED <<df, aih, forn, cols, chamadas, hashseed, session_state, uploaded>>

NextHospShare == carregar_aih_hospital \/ run_medicos_concentrados_por_hospital

SpecHospShare == InitHospShare /\ [][NextHospShare]_vars

\* C26: every returned share lies in (50, 100]: the claims counted for a
\* (facility, physician) pair in the line view never exceed the facility's
\* claims counted in the claim view.
C26_ShareBetween50And100 ==
    pc = "done" =>
        \A i \in DOMAIN out.rows :
            /\ out.rows[i].PERCENTUAL_AIH_MEDICO > CONCENTRACAO_MEDICO_HOSPITAL_PERC_LIMITE * 100
            /\ out.rows[i].PERCENTUAL_AIH_MEDICO <= 100 * 100
            /\ out.rows[i].NUM_AIH_MEDICO_HOSP <= out.rows[i].TOTAL_AIH_HOSPITAL

-----------------------------------------------------------------------------
(* The four global filters of the sidebar (year range, physician,          *)
(* principal procedure, facility) applied to the loaded line view and      *)
(* claim view.  A year is its last two digits.                             *)

\* The claim view of load_and_process_data with the admission year and the
\* facility: first non-null cells over the claim's non-sentinel lines.
ClaimViewFiltros(lines) ==
    LET kept == SelectSeq(lines, LAMBDA r : r.SP_PF_DOC # SENTINEL_PF_DOC)
        keys == AscSeq(GroupKeys(kept, "SP_NAIH"))
        grp(c) == SelectSeq(kept, LAMBDA r : r.SP_NAIH = c)
    IN  [p \in DOMAIN keys |->
            [SP_NAIH |-> keys[p],
             SP_CNES |-> FirstNonNull(grp(keys[p]), "SP_CNES"),
             ANO_INTERNACAO |-> FirstNonNull(grp(keys[p]), "ANO_INTERNACAO")]]

\* ano_min <= ANO_INTERNACAO <= ano_max; false for a missing year.
NoPeriodo(r, ano_min, ano_max) ==
    r.ANO_INTERNACAO # NULL /\ ano_min <= r.ANO_INTERNACAO /\ r.ANO_INTERNACAO <= ano_max

\* df_filtrado_temp after the four filters.
FiltrarLinhasGlobal(original, ano_min, ano_max, medico_filtrado, proc_filtrado, cnes_filtrado) ==
    SelectSeq(original, LAMBDA r :
        /\ NoPeriodo(r, ano_min, ano_max)
        /\ medico_filtrado # Todos => r.MEDICO = medico_filtrado
        /\ proc_filtrado # Todos => r.DESC_PROC_REAL = proc_filtrado
        /\ cnes_filtrado # Todos => r.SP_CNES = cnes_filtrado)

\* df_aih_custos_filtrado_temp after the four filters: the physician and
\* the procedure filter keep the claims that have such a line anywhere in
\* the loaded line view.
FiltrarAihCustosGlobal(original, unicos, ano_min, ano_max, medico_filtrado, proc_filtrado, cnes_filtrado) ==
    LET aihs_do_medico ==
            {original[i].SP_NAIH : i \in {j \in DOMAIN original :
                                             original[j].MEDICO = medico_filtrado}}
        aihs_do_proc ==
            {original[i].SP_NAIH : i \in {j \in DOMAIN original :
                                             original[j].DESC_PROC_REAL = proc_filtrado}}
    IN  SelectSeq(unicos, LAMBDA r :
            /\ NoPeriodo(r, ano_min, ano_max)
            /\ medico_filtrado # Todos => r.SP_NAIH \in aihs_do_medico
            /\ proc_filtrado # Todos => r.SP_NAIH \in aihs_do_proc
            /\ cnes_filtrado # Todos => r.SP_CNES = cnes_filtrado)

\* Bound: lines of the loaded file.
MaxFiltroLines == 3

\* Lines of claim 1 (procedure 1, facility 1, year 20) and claim 2
\* (procedure 2, facility 2, year 21) by physicians 1 and 2, with a real
\* or the all-zero professional payee; a line of claim 1 whose admission
\* date did not parse; a line of claim 1 carrying the procedure, facility
\* and year of claim 2.
FiltroLines ==
    <<[SP_NAIH |-> 1, SP_PF_DOC |-> 7, MEDICO |-> 1, DESC_PROC_REAL |-> 1, SP_CNES |-> 1,
       ANO_INTERNACAO |-> 20],
      [SP_NAIH |-> 1, SP_PF_DOC |-> 7, MEDICO |-> 2, DESC_PROC_REAL |-> 1, SP_CNES |-> 1,
       ANO_INTERNACAO |-> 20],
      [SP_NAIH |-> 1, SP_PF_DOC |-> SENTINEL_PF_DOC, MEDICO |-> 2, DESC_PROC_REAL |-> 1,
       SP_CNES |-> 1, ANO_INTERNACAO |-> 20],
      [SP_NAIH |-> 2, SP_PF_DOC |-> 7, MEDICO |-> 1, DESC_PROC_REAL |-> 2, SP_CNES |-> 2,
       ANO_INTERNACAO |-> 21],
      [SP_NAIH |-> 2, SP_PF_DOC |-> 7, MEDICO |-> 2, DESC_PROC_REAL |-> 2, SP_CNES |-> 2,
       ANO_INTERNACAO |-> 21],
      [SP_NAIH |-> 2, SP_PF_DOC |-> SENTINEL_PF_DOC, MEDICO |-> 2, DESC_PROC_REAL |-> 2,
       SP_CNES |-> 2, ANO_INTERNACAO |-> 21],
      [SP_NAIH |-> 1, SP_PF_DOC |-> 7, MEDICO |-> 1, DESC_PROC_REAL |-> 1, SP_CNES |-> 1,
       ANO_INTERNACAO |-> NULL],
      [SP_NAIH |-> 1, SP_PF_DOC |-> 7, MEDICO |-> 2, DESC_PROC_REAL |-> 2, SP_CNES |-> 2,
       ANO_INTERNACAO |-> 21]>>

FiltroDatasets(n) ==
    UNION {{[df_original |-> [i \in 1..k |-> FiltroLines[s[i]]],
             df_aih_custos_unicos |-> ClaimViewFiltros([i \in 1..k |-> FiltroLines[s[i]]])] :
               s \in [1..k -> DOMAIN FiltroLines]} : k \in 1..n}

InitFiltros ==
    /\ pc = "loaded"
    /\ session_state \in FiltroDatasets(MaxFiltroLines)
    /\ df = <<>>
    /\ aih = <<>>
    /\ forn = <<>>
    /\ cols = DfCols
    /\ out = EmptyResult
    /\ chamadas = <<>>
    /\ hashseed = 0
    /\ uploaded = <<>>

\* The filter block of the script: the slider offers the years of the
\* loaded lines, each select box 'Todos' or a value.
filtros_globais ==
    /\ pc = "loaded"
    /\ \E ano_min, ano_max \in GroupKeys(session_state.df_original, "ANO_INTERNACAO"),
          medico_filtrado \in {Todos, 1, 2}, proc_filtrado \in {Todos, 1, 2},
          cnes_filtrado \in {Todos, 1, 2} :
          /\ ano_min <= ano_max
          /\ df' = FiltrarLinhasGlobal(session_state.df_original, ano_min, ano_max,
                                       medico_filtrado, proc_filtrado, cnes_filtrado)
          /\ aih' = FiltrarAihCustosGlobal(session_state.df_original,
                                           session_state.df_aih_custos_unicos,
                                           ano_min, ano_max,
                                           medico_filtrado, proc_filtrado, cnes_filtrado)
    /\ pc' = "filtered"
    /\ UNCHANGED <<forn, cols, out, chamadas, hashseed, session_state, uploaded>>

NextFiltros == filtros_globais

SpecFiltros == InitFiltros /\ [][NextFiltros]_vars

\* C29: after the filters, every claim of the filtered claim view has a
\* line in the filtered line view, and every claim of the filtered line
\* view that has a row in the loaded claim view is in the filtered claim
\* view.
C29_FilteredViewsDescribeSameClaims ==
    pc = "filtered" =>
        /\ \A i \in DOMAIN aih : \E j \in DOMAIN df : df[j].SP_NAIH = aih[i].SP_NAIH
        /\ \A j \in DOMAIN df :
              (\E u \in DOMAIN session_state.df_aih_custos_unicos :
                   session_state.df_aih_custos_unicos[u].SP_NAIH = df[j].SP_NAIH)
                  => \E i \in DOMAIN aih : aih[i].SP_NAIH = df[j].SP_NAIH

-----------------------------------------------------------------------------
(* format_cnpj and the supplier join of analisar_fornecedores_opme_        *)
(* concentrados with tax ids as the texts the two files hold: a text is a  *)
(* sequence of one-character strings, the empty sequence a missing cell.   *)

\* The width a CNPJ is padded to.
LARGURA_CNPJ == 14

\* str.zfill(n)
ZFill(s, n) == IF Len(s) >= n THEN s ELSE [i \in 1..(n - Len(s)) |-> "0"] \o s

format_cnpj(cnpj) ==
    IF cnpj = <<>> THEN <<"N", "/", "A">>
    ELSE LET cnpj_str == ZFill(cnpj, LARGURA_CNPJ)
         IN  SubSeq(cnpj_str, 1, 2) \o <<".">> \o SubSeq(cnpj_str, 3, 5) \o <<".">> \o
             SubSeq(cnpj_str, 6, 8) \o <<"/">> \o SubSeq(cnpj_str, 9, 12) \o <<"-">> \o
             SubSeq(cnpj_str, 13, 14)

\* The sort key of a text of digits: its character codes, padded on the
\* right so that a prefix sorts first.
ChaveTexto(s) ==
    [i \in 1..LARGURA_CNPJ |->
        IF i > Len(s) THEN 0 - 1 ELSE IF s[i] = "0" THEN 0 ELSE IF s[i] = "1" THEN 1 ELSE 2]

\* merge(df_fornecedores[['CNPJ', 'RAZAO_SOCIAL']], left_on='SP_PJ_DOC',
\* right_on='CNPJ', how='left'): the keys are compared as the texts they are.
MergeCnpj(left, registry) ==
    LET matches(l) == SelectSeq(registry, LAMBDA g : g.CNPJ = l.SP_PJ_DOC)
        joined(l) == IF matches(l) = <<>> THEN <<l @@ [RAZAO_SOCIAL |-> NULL]>>
                     ELSE [i \in DOMAIN matches(l) |->
                              l @@ [RAZAO_SOCIAL |-> matches(l)[i].RAZAO_SOCIAL]]
    IN  Concat([p \in DOMAIN left |-> joined(left[p])])

\* analisar_fornecedores_opme_concentrados on device lines with a payee.
fornecedores_concentrados_cnpj(lines, registry) ==
    IF lines = <<>> THEN EmptyResult
    ELSE
    LET total_opme_valor == SumSeq(Column(lines, "SP_VALATO"))
        payees == Unique(Column(lines, "SP_PJ_DOC"))
        keys == StableSortAsc(payees, [i \in DOMAIN payees |-> ChaveTexto(payees[i])])
        valor(k) == SumSeq(Column(SelectSeq(lines, LAMBDA r : r.SP_PJ_DOC = k), "SP_VALATO"))
        share_por_fornecedor ==
            [p \in DOMAIN keys |->
                [SP_PJ_DOC |-> keys[p],
                 VALOR_TOTAL_OPME |-> valor(keys[p]),
                 PERCENTUAL_VALOR |-> PercentRound2(valor(keys[p]), total_opme_valor),
                 SP_PJ_DOC_FORMATADO |-> format_cnpj(keys[p])]]
        merged == IF registry # <<>> THEN MergeCnpj(share_por_fornecedor, registry)
                  ELSE share_por_fornecedor
        concentrados ==
            SelectSeq(merged, LAMBDA r :
                r.PERCENTUAL_VALOR > CONCENTRACAO_FORNECEDOR_PERC_LIMITE * 100)
    IN  IF concentrados = <<>> THEN EmptyResult
        ELSE Table(StableSortAsc(concentrados,
                 [i \in DOMAIN concentrados |-> <<0 - concentrados[i].PERCENTUAL_VALOR>>]))

\* Bounds: device lines of the view, rows of the registry.
MaxCnpjLines == 2
MaxCnpjRegistry == 2

\* The tax ids 1 and 2 written with all their 14 digits, and 1 unpadded.
CnpjUm == ZFill(<<"1">>, LARGURA_CNPJ)

CnpjDois == ZFill(<<"2">>, LARGURA_CNPJ)

CnpjLines == [SP_PJ_DOC : {CnpjUm, CnpjDois, <<"1">>}, SP_VALATO : {10, 30}]

\* Registry rows: id 1 unpadded or padded under name 11, id 2 under name 12.
CnpjRegistryRows ==
    {[CNPJ |-> <<"1">>, RAZAO_SOCIAL |-> 11], [CNPJ |-> CnpjUm, RAZAO_SOCIAL |-> 11],
     [CNPJ |-> CnpjDois, RAZAO_SOCIAL |-> 12]}

InitCnpj ==
    /\ pc = "ready"
    /\ df \in SeqsUpTo(CnpjLines, MaxCnpjLines)
    /\ aih = <<>>
    /\ forn \in SeqsUpTo(CnpjRegistryRows, MaxCnpjRegistry)
    /\ cols = DfCols
    /\ out = EmptyResult
    /\ chamadas = <<>>
    /\ hashseed = 0
    /\ session_state = <<>>
    /\ uploaded = <<>>

run_fornecedores_concentrados_cnpj ==
    /\ pc = "ready"
    /\ out' = fornecedores_concentrados_cnpj(df, forn)
    /\ pc' = "done"
    /\ UNCHANGED <<df, aih, forn, cols, chamadas, hashseed, session_state, uploaded>>

NextCnpj == run_fornecedores_concentrados_cnpj

SpecCnpj == InitCnpj /\ [][NextCnpj]_vars

\* C30: a returned supplier whose tax id and a registry tax id are the same
\* 14-digit id after left-zero-padding is matched: the name next to its
\* formatted CNPJ is the registry name of an id that format_cnpj renders
\* alike.
C30_PaddedIdsMatchInJoin ==
    pc = "done" =>
        \A i \in DOMAIN out.rows :
            (\E g \in DOMAIN forn :
                 format_cnpj(forn[g].CNPJ) = out.rows[i].SP_PJ_DOC_FORMATADO)
                => \E g \in DOMAIN forn :
                       /\ format_cnpj(forn[g].CNPJ) = out.rows[i].SP_PJ_DOC_FORMATADO
                       /\ out.rows[i].RAZAO_SOCIAL = forn[g].RAZAO_SOCIAL

=============================================================================
